---- MODULE Spec2Model ----
(***************************************************************************)
(* Model of the non-streaming chat pipeline:                               *)
(*   - the fallback chain registry (lib/.server/llm/model-fallback.ts)     *)
(*   - the two-stage generation driver chatAction                          *)
(*     (app/routes/api.chat-nonstream.ts)                                  *)
(* Strings that the code concatenates or searches are sequences of tokens; *)
(* a nullable JS value is a record with a nil flag or an empty sequence.   *)
(* Array indices are 1-based here (0 stands for findIndex's -1).           *)
(***************************************************************************)
EXTENDS Integers, Sequences, FiniteSets, TLC

\* ------------------------------------------------------------------------
\* Bounds of the model
\* ------------------------------------------------------------------------
\* cap on the number of builder calls one request may issue in the model
MaxCalls == 11
\* number of requests the runtime serves at the same time
NumRequests == 2
\* largest currentRetry argument handed to shouldRetry by the registry driver
MaxRetryArg == 3
\* number of queueSync and forceSyncProject calls made on the sync service
MaxSyncCalls == 3
\* number of syncProject executions made on the backend
MaxSyncs == 2
\* number of append and reload calls made on the chat hook
MaxChatCalls == 3
\* longest run of getNextFallback applications followed from getDefaultModel
MaxWalk == 6

\* ------------------------------------------------------------------------
\* Fallback chain registry (model-fallback.ts)
\* ------------------------------------------------------------------------
Unset == "<unset>"

DefaultModels ==
  << "qwen/qwen3-coder", "gemini-2.5-flash", "x-ai/grok-4-fast",
     "qwen/qwen3-coder-480b-a35b-instruct" >>

DefaultProviders == << "OpenRouter", "OpenRouter", "OpenRouter", "Novita" >>

ChainMaxRetries == << 2, 2, 1, 1 >>

\* process.env.X || default
EnvOr(v, d) == IF v = Unset \/ v = "" THEN d ELSE v

\* the array literal of getFallbackChain
BuildChain(e) ==
  [ i \in 1..4 |->
      [ model      |-> EnvOr(e.models[i], DefaultModels[i]),
        provider   |-> EnvOr(e.providers[i], DefaultProviders[i]),
        maxRetries |-> ChainMaxRetries[i] ] ]

\* _fallbackChain === null
NullChain == << >>

\* getFallbackChain(): the cached chain, built from the environment when the
\* cache is empty; callers store the value back into the cache
getFallbackChain_rebuild(cache, e) == BuildChain(e)

getFallbackChain(cache, e) == IF cache # NullChain THEN cache ELSE BuildChain(e)

getDefaultModel(chain) == chain[1]

\* Array.prototype.findIndex(f => f.model === m); 0 when there is none
FindIndex(chain, m) ==
  IF \E i \in 1..Len(chain) : chain[i].model = m
    THEN CHOOSE i \in 1..Len(chain) :
           /\ chain[i].model = m
           /\ \A j \in 1..(i - 1) : chain[j].model # m
    ELSE 0

\* the null returned by getNextFallback
NoFallback == [ model |-> "<null>", provider |-> "<null>", maxRetries |-> 0 ]

getNextFallback_fromStart(chain, currentModel) ==
  LET currentIndex == FindIndex(chain, currentModel)
  IN  IF currentIndex >= Len(chain)
        THEN NoFallback
        ELSE chain[currentIndex + 1]

getNextFallback_skipLast(chain, currentModel) ==
  LET currentIndex == FindIndex(chain, currentModel)
  IN  IF currentIndex = 0 \/ currentIndex >= Len(chain) - 1
        THEN NoFallback
        ELSE chain[currentIndex + 1]

getNextFallback(chain, currentModel) ==
  LET currentIndex == FindIndex(chain, currentModel)
  IN  IF currentIndex = 0 \/ currentIndex >= Len(chain)
        THEN NoFallback
        ELSE chain[currentIndex + 1]

retryableErrors ==
  { "overloaded", "rate limit", "timeout", "network", "429", "503", "500" }

\* String.prototype.toLowerCase on one token of a message
ToLowerCase_identity(tok) == tok

ToLowerCase(tok) ==
  CASE tok = "Overloaded"   -> "overloaded"
    [] tok = "Rate Limit"   -> "rate limit"
    [] tok = "TIMEOUT"      -> "timeout"
    [] tok = "Network"      -> "network"
    [] tok = "API key"      -> "api key"
    [] tok = "Service"      -> "service"
    [] tok = "Invalid"      -> "invalid"
    [] OTHER                -> tok

\* a thrown value without a message
NoMessage == << >>

\* errorMessage.includes(marker) after lower-casing; a message is the
\* sequence of its tokens
IsRetryableMessage(message) ==
  \E i \in 1..Len(message) : ToLowerCase(message[i]) \in retryableErrors

shouldRetry_noBound(chain, error, currentRetry, model) ==
  LET idx == FindIndex(chain, model)
  IN  IF idx = 0 THEN FALSE ELSE IsRetryableMessage(error.message)

shouldRetry(chain, error, currentRetry, model) ==
  LET idx == FindIndex(chain, model)
  IN  IF idx = 0
        THEN FALSE
        ELSE /\ IsRetryableMessage(error.message)
             /\ currentRetry < chain[idx].maxRetries


\* ------------------------------------------------------------------------
\* Messages, errors and usage objects
\* ------------------------------------------------------------------------
\* token of a message content: plain text, a [Model: x] tag, a [Provider: x]
\* tag, or the design plan returned by the planning model
Text(v)        == [ k |-> "Text", v |-> v ]
ModelTag(v)    == [ k |-> "Model", v |-> v ]
ProviderTag(v) == [ k |-> "Provider", v |-> v ]
PlanTok(v)     == [ k |-> "Plan", v |-> v ]

Msg(role, content) == [ role |-> role, content |-> content ]

\* a usage object is <<completionTokens, promptTokens, totalTokens>>;
\* << >> is a response without usage
NoUsage == << >>
ZeroUsage == << 0, 0, 0 >>

\* cumulativeUsage.x += usage.x || 0, for the three fields
AddUsage(acc, usage) ==
  IF usage = NoUsage
    THEN acc
    ELSE << acc[1] + usage[1], acc[2] + usage[2], acc[3] + usage[3] >>

\* thrown values: statusCode 0 and isRetryable "undefined" are absent fields
Err(message, statusCode, isRetryable) ==
  [ nil |-> FALSE, message |-> message, statusCode |-> statusCode,
    isRetryable |-> isRetryable ]

NoError == [ nil |-> TRUE, message |-> NoMessage, statusCode |-> 0,
             isRetryable |-> "undefined" ]

ErrOverloaded == Err(<< "Service", "Overloaded" >>, 503, "true")
ErrInvalid    == Err(<< "did not match", "pattern" >>, 0, "undefined")

\* an error about the API key that carries a status of its own, and one that
\* names a transient marker but is flagged as not retryable
ErrApiKey      == Err(<< "Invalid", "API key" >>, 403, "true")
ErrRateLimited == Err(<< "Rate Limit", "exceeded" >>, 429, "false")

\* errors a builder call can throw in the model: one that passes the
\* retryable classification and one that fails it
BuilderErrors == { ErrOverloaded, ErrInvalid }

\* the errors of the requests that exercise the error response
PipelineErrors == { ErrOverloaded, ErrInvalid, ErrApiKey, ErrRateLimited }

\* result of generateText
NoResult == [ nil |-> TRUE, text |-> "", reasoning |-> "", usage |-> NoUsage ]
GenResult(text, reasoning, usage) ==
  [ nil |-> FALSE, text |-> text, reasoning |-> reasoning, usage |-> usage ]

BuilderUsage  == << 20, 8, 28 >>
PlanningUsage == << 10, 5, 15 >>
SummaryUsage  == << 3, 4, 7 >>
SelectUsage   == << 1, 2, 3 >>

\* ------------------------------------------------------------------------
\* Inputs
\* ------------------------------------------------------------------------
\* environment: PRIMARY_MODEL, FALLBACK_MODEL_1..3 and the four providers
EnvOf(m1, m2, m3, p1) ==
  [ models    |-> << m1, m2, m3, Unset >>,
    providers |-> << p1, Unset, Unset, Unset >> ]

DefaultEnv == EnvOf(Unset, Unset, Unset, Unset)

Envs ==
  { DefaultEnv,
    EnvOf("A", Unset, Unset, "P"),     \* a custom primary pair
    EnvOf(Unset, "A", Unset, Unset),   \* a custom first fallback
    EnvOf("A", "A", Unset, Unset),     \* the same model twice in a row
    EnvOf("A", Unset, "A", "P"),       \* the same model at entries 0 and 2
    EnvOf(Unset, "A", "A", Unset) }    \* the same model at entries 1 and 2

U1 == Msg("user", << Text("req1") >>)
A1 == Msg("assistant", << Text("reply1") >>)
U2 == Msg("user", << ModelTag("A"), ProviderTag("P"), Text("req2") >>)

Histories == { << U1 >>, << U1, A1 >>, << U1, A1, U2 >>, << A1 >> }

AuthOutcomes == { "userThrows", "checkThrows", "denied", "allowed" }

\* requests that exercise the fallback walk over every environment
WalkScenarios ==
  [ env  : Envs,
    auth : { "allowed" },
    errs : { BuilderErrors },
    body : [ messages : { << U1 >> },
             chatMode : { "discuss" },
             useKimiPlanning : { "undefined" },
             requestedModel : { Unset, "A", "Z" },
             requestedProvider : { Unset, "P" },
             optimize : { FALSE } ] ]

\* requests that exercise the usage check, planning, summarization and
\* context selection, asking for the third entry of the default chain
PipelineScenarios ==
  [ env  : { DefaultEnv },
    auth : AuthOutcomes,
    errs : { PipelineErrors },
    body : [ messages : Histories,
             chatMode : { "build", "discuss" },
             useKimiPlanning : { "undefined", "true", "false" },
             requestedModel : { DefaultModels[3] },
             requestedProvider : { Unset },
             optimize : BOOLEAN ] ]

Scenarios == WalkScenarios \cup PipelineScenarios

\* ------------------------------------------------------------------------
\* State
\* ------------------------------------------------------------------------
VARIABLES
  env,               \* process.env, as far as model-fallback.ts reads it
  fallbackChain,     \* _fallbackChain, the memoized chain
  pc,                \* position of chatAction
  body,              \* the request's JSON body
  userSupabaseId,    \* "" is null
  currentModel,
  currentProvider,
  enhancedMessages,
  processedMessages,
  cumulativeUsage,
  attempt,
  maxRetries,
  result,
  lastError,
  response,          \* the Response returned, NoResponse while running
  calls,             \* sub-calls and sleeps of the request, in issue order
  callMsgs,          \* the messages handed to the latest generateText call
  increments,        \* incrementUsage writes that reached the database
  authEnv,           \* what the auth and usage-check collaborators answer
  designPlan,        \* "" until a plan was obtained
  query,             \* latest call made on the registry by RegistrySpec
  builderErrs,       \* the errors generateText can throw for this request
  heap,              \* the usage objects allocated by concurrent requests
  reqs,              \* the concurrent requests of ConcurrentSpec
  gen,               \* a call of generateText and what it invoked
  sync,              \* the ProjectSyncService instance and its backend
  store,             \* the tables behind supabasePersistence and the syncs on them
  chat,              \* the state of the useAdaptiveChat hook and its requests
  guard              \* a call on UsageGuard and what it answered

vars ==
  << env, fallbackChain, pc, body, userSupabaseId, currentModel,
     currentProvider, enhancedMessages, processedMessages, cumulativeUsage,
     attempt, maxRetries, result, lastError, response, calls, callMsgs,
     increments, authEnv, designPlan, query, builderErrs, heap, reqs, gen,
     sync, store, chat, guard >>

\* no call of generateText, no sync service, no backend, no chat hook and no
\* usage guard under observation
NoGen == << >>
NoSync == << >>
NoStore == << >>
NoChat == << >>
NoGuard == << >>

NoResponse ==
  [ nil |-> TRUE, status |-> 0, error |-> FALSE, message |-> NoMessage,
    statusCode |-> 0, isRetryable |-> FALSE, limitReached |-> FALSE, upgradeRequired |-> FALSE,
    usage |-> NoUsage ]

\* a call on the registry: the function, its arguments, the boolean or the
\* entry it returned, and the entries returned so far by getDefaultModel
\* followed by getNextFallback on the model of the entry last returned
NoQuery == [ fn |-> "none", error |-> NoError, count |-> 0, model |-> "",
             ret |-> FALSE, entry |-> NoFallback, walk |-> << >> ]

\* ------------------------------------------------------------------------
\* Helpers of chatAction
\* ------------------------------------------------------------------------
NoMsg == Msg("<none>", << >>)

\* messages.filter(m => m.role === 'user').slice(-1)[0]
LastUserMessage(messages) ==
  LET users == SelectSeq(messages, LAMBDA m : m.role = "user")
  IN  IF users = << >> THEN NoMsg ELSE users[Len(users)]

IsTag(tok) == tok.k \in { "Model", "Provider" }

\* extractPropertiesFromMessage(message).content: the content without its
\* [Model: ...] and [Provider: ...] tags
CleanContent(message) == SelectSeq(message.content, LAMBDA t : ~IsTag(t))

\* the template of line 129 around ${cleanContent}
PlanningPrompt(cleanContent) == << Text("planning-instructions") >> \o cleanContent

\* planningResult.reasoning || planningResult.text
DesignPlan(planningResult) ==
  IF planningResult.reasoning # "" THEN planningResult.reasoning
                                    ELSE planningResult.text

\* `[Model: ${currentModel}]\n\n[Provider: ${currentProvider}]\n\n${designPlan}`
FormattedPrompt(model, provider, plan) ==
  << ModelTag(model), ProviderTag(provider), PlanTok(plan) >>

\* [...messages.slice(0, -1), { id, role: 'user', content: formattedPrompt }]
EnhanceMessages(messages, formattedPrompt) ==
  SubSeq(messages, 1, Len(messages) - 1) \o << Msg("user", formattedPrompt) >>

\* chatMode === 'build' && lastUserMessage && kimiEnabled
PlanningGate_ignoreFlag(b) ==
  /\ b.chatMode = "build"
  /\ LastUserMessage(b.messages) # NoMsg

PlanningGate(b) ==
  /\ b.chatMode = "build"
  /\ LastUserMessage(b.messages) # NoMsg
  /\ b.useKimiPlanning # "false"

\* mcpService.processToolInvocations(messages, null): the histories of the
\* model carry no tool invocation, which it would leave as they are
processToolInvocations(messages) == messages

\* enhancedMessages.length > messages.length ? [...enhancedMessages]
\*                                           : [...processedMessages]
BuilderMessages(enhanced, messages, processed) ==
  IF Len(enhanced) > Len(messages) THEN enhanced ELSE processed

\* fallbackConfig?.maxRetries || 2
DriverMaxRetries(chain, model) ==
  LET idx == FindIndex(chain, model)
  IN  IF idx = 0 \/ chain[idx].maxRetries = 0 THEN 2 ELSE chain[idx].maxRetries

\* shouldRetry(error, attempt, currentModel) && attempt < maxRetries
RetrySameModel_always(chain, error, att, model, maxR) == att < maxR

RetrySameModel(chain, error, att, model, maxR) ==
  shouldRetry(chain, error, att, model) /\ att < maxR

\* if (result) break;
LoopExits_never(res) == FALSE

LoopExits(res) == ~res.nil

Includes(message, tok) == \E i \in 1..Len(message) : message[i] = tok

\* the catch block of lines 372-409
ErrorResponse_status500(error) ==
  [ nil |-> FALSE, status |-> 500, error |-> TRUE,
    message |-> error.message,
    statusCode |-> IF error.statusCode = 0 THEN 500 ELSE error.statusCode,
    isRetryable |-> (error.isRetryable # "false"),
    limitReached |-> FALSE, upgradeRequired |-> FALSE, usage |-> NoUsage ]

ErrorResponse(error) ==
  LET msg0 == IF error.message = NoMessage
                THEN << "An unexpected error occurred" >>
                ELSE error.message
      errorMessage ==
        IF Includes(msg0, "did not match") \/ Includes(msg0, "pattern")
          THEN << "AI returned invalid format" >>
          ELSE msg0
      statusCode == IF error.statusCode = 0 THEN 500 ELSE error.statusCode
  IN  IF Includes(error.message, "API key")
        THEN [ nil |-> FALSE, status |-> 401, error |-> TRUE,
               message |-> << "Invalid or missing API key" >>,
               statusCode |-> 401, isRetryable |-> FALSE,
               limitReached |-> FALSE, upgradeRequired |-> FALSE, usage |-> NoUsage ]
        ELSE [ nil |-> FALSE, status |-> statusCode, error |-> TRUE,
               message |-> errorMessage, statusCode |-> statusCode,
               isRetryable |-> (error.isRetryable # "false"),
               limitReached |-> FALSE, upgradeRequired |-> FALSE, usage |-> NoUsage ]

\* the 200 response of lines 353-371
SuccessResponse(usage) ==
  [ nil |-> FALSE, status |-> 200, error |-> FALSE, message |-> NoMessage,
    statusCode |-> 0, isRetryable |-> FALSE, limitReached |-> FALSE, upgradeRequired |-> FALSE,
    usage |-> usage ]

\* the 429 response of lines 59-70
LimitResponse ==
  [ nil |-> FALSE, status |-> 429, error |-> TRUE,
    message |-> << "AI generation limit reached" >>, statusCode |-> 0,
    isRetryable |-> FALSE, limitReached |-> TRUE,
    upgradeRequired |-> TRUE, usage |-> NoUsage ]

\* entries of the log of sub-calls
Call(kind, model, provider) ==
  [ kind |-> kind, model |-> model, provider |-> provider,
    outcome |-> "pending", error |-> NoError, usage |-> NoUsage ]

Sleep == [ kind |-> "sleep", model |-> "", provider |-> "",
           outcome |-> "ok", error |-> NoError, usage |-> NoUsage ]

\* the latest call has returned
Settle_keepPending(log, outcome, error, usage) == log

Settle(log, outcome, error, usage) ==
  [ log EXCEPT ![Len(log)] =
      [ @ EXCEPT !.outcome = outcome, !.error = error, !.usage = usage ] ]

BuilderCalls == SelectSeq(calls, LAMBDA c : c.kind = "builder")

PlanningModel == "moonshotai/kimi-k2-thinking"
PlanningProvider == "OpenRouter"


\* ------------------------------------------------------------------------
\* chatAction, one action per stretch between two awaits
\* ------------------------------------------------------------------------
Init ==
  /\ \E sc \in Scenarios :
       /\ env = sc.env
       /\ body = sc.body
       /\ authEnv = sc.auth
       /\ builderErrs = sc.errs
  /\ heap = << >>
  /\ reqs = << >>
  /\ gen = NoGen
  /\ sync = NoSync
  /\ store = NoStore
  /\ chat = NoChat
  /\ guard = NoGuard
  /\ fallbackChain = NullChain
  /\ pc = "auth"
  /\ userSupabaseId = ""
  /\ currentModel = ""
  /\ currentProvider = ""
  /\ enhancedMessages = << >>
  /\ processedMessages = << >>
  /\ cumulativeUsage = ZeroUsage
  /\ attempt = 0
  /\ maxRetries = 0
  /\ result = NoResult
  /\ lastError = NoError
  /\ response = NoResponse
  /\ calls = << >>
  /\ callMsgs = << >>
  /\ increments = << >>
  /\ designPlan = ""
  /\ query = NoQuery

\* !canGenerate.allowed
LimitReached_never(a) == FALSE

LimitReached(a) == a = "denied"

\* lines 46-75: getAuthenticatedUser, canPerformAction; a throw of either is
\* caught and logged
Authenticate ==
  /\ pc = "auth"
  /\ userSupabaseId' = IF authEnv = "userThrows" THEN "" ELSE "sb-user"
  /\ IF LimitReached(authEnv)
       THEN /\ response' = LimitResponse
            /\ pc' = "done"
       ELSE /\ response' = response
            /\ pc' = "parse"
  /\ UNCHANGED << env, fallbackChain, body, currentModel, currentProvider,
                  enhancedMessages, processedMessages, cumulativeUsage,
                  attempt, maxRetries, result, lastError, calls, callMsgs,
                  increments, authEnv, builderErrs, heap, reqs, gen, sync, store, chat, guard, designPlan, query >>

\* lines 77-147: the body is read, the starting pair chosen, and the planning
\* call issued when the gate is open
ParseBody ==
  /\ pc = "parse"
  /\ LET chain == getFallbackChain(fallbackChain, env)
         defaultFallback == getDefaultModel(chain)
         model == EnvOr(body.requestedModel, defaultFallback.model)
         provider == EnvOr(body.requestedProvider, defaultFallback.provider)
     IN  /\ fallbackChain' = chain
         /\ currentModel' = model
         /\ currentProvider' = provider
         /\ enhancedMessages' = body.messages
         /\ IF PlanningGate(body)
              THEN /\ calls' = Append(calls, Call("planning", PlanningModel,
                                                  PlanningProvider))
                   /\ callMsgs' =
                        << Msg("user", PlanningPrompt(
                             CleanContent(LastUserMessage(body.messages)))) >>
                   /\ pc' = "planning"
              ELSE /\ UNCHANGED << calls, callMsgs >>
                   /\ pc' = "prepare"
  /\ UNCHANGED << env, body, userSupabaseId, processedMessages,
                  cumulativeUsage, attempt, maxRetries, result, lastError,
                  response, increments, authEnv, builderErrs, heap, reqs, gen, sync, store, chat, guard, designPlan, query >>

\* what the planning call can answer: a plan in reasoning, a plan in text,
\* nothing at all
PlanningResults ==
  { GenResult("", "brief", PlanningUsage),
    GenResult("plan-text", "", NoUsage),
    GenResult("", "", NoUsage) }

\* lines 156-178 with the plan in hand
PlanApplied_keepList(messages, model, provider, plan) == messages

PlanApplied(messages, model, provider, plan) ==
  EnhanceMessages(messages, FormattedPrompt(model, provider, plan))

\* lines 181-183: the catch of the planning stage leaves enhancedMessages
PlanFailed_dropLast(messages) == SubSeq(messages, 1, Len(messages) - 1)

PlanFailed(messages) == messages

\* lines 132-183: the planning call returns a result
PlanningReturns ==
  /\ pc = "planning"
  /\ \E r \in PlanningResults :
       /\ calls' = Settle(calls, "ok", NoError, r.usage)
       /\ IF DesignPlan(r) = ""
            THEN /\ enhancedMessages' = PlanFailed(enhancedMessages)
                 /\ designPlan' = designPlan
            ELSE /\ enhancedMessages' =
                      PlanApplied(body.messages, currentModel, currentProvider,
                                  DesignPlan(r))
                 /\ designPlan' = DesignPlan(r)
  /\ pc' = "prepare"
  /\ UNCHANGED << env, fallbackChain, body, userSupabaseId, currentModel,
                  currentProvider, processedMessages, cumulativeUsage, attempt,
                  maxRetries, result, lastError, response, callMsgs,
                  increments, authEnv, builderErrs, heap, reqs, gen, sync, store, chat, guard, query >>

\* lines 132-183: the planning call throws
PlanningThrows ==
  /\ pc = "planning"
  /\ calls' = Settle(calls, "error", ErrOverloaded, NoUsage)
  /\ enhancedMessages' = PlanFailed(enhancedMessages)
  /\ pc' = "prepare"
  /\ UNCHANGED << env, fallbackChain, body, userSupabaseId, currentModel,
                  currentProvider, processedMessages, cumulativeUsage, attempt,
                  maxRetries, result, lastError, response, callMsgs,
                  increments, authEnv, builderErrs, heap, reqs, gen, sync, store, chat, guard, designPlan, query >>

\* lines 186-227: the accumulator is created, the messages processed, and the
\* summary call issued when there are files and contextOptimization is set
Prepare ==
  /\ pc = "prepare"
  /\ cumulativeUsage' = ZeroUsage
  /\ processedMessages' = processToolInvocations(enhancedMessages)
  /\ IF body.optimize
       THEN /\ calls' = Append(calls, Call("summary", "", ""))
            /\ pc' = "summary"
       ELSE /\ calls' = calls
            /\ pc' = "loop"
  /\ UNCHANGED << env, fallbackChain, body, userSupabaseId, currentModel,
                  currentProvider, enhancedMessages, attempt, maxRetries,
                  result, lastError, response, callMsgs, increments, authEnv, builderErrs, heap, reqs, gen, sync, store, chat, guard,
                  designPlan, query >>

\* lines 212-248: createSummary returns (its onFinish adds the usage) and
\* selectContext is called
SummaryReturns ==
  /\ pc = "summary"
  /\ \E u \in { NoUsage, SummaryUsage } :
       /\ cumulativeUsage' = AddUsage(cumulativeUsage, u)
       /\ calls' = Append(Settle(calls, "ok", NoError, u),
                          Call("selectContext", "", ""))
  /\ pc' = "select"
  /\ UNCHANGED << env, fallbackChain, body, userSupabaseId, currentModel,
                  currentProvider, enhancedMessages, processedMessages,
                  attempt, maxRetries, result, lastError, response, callMsgs,
                  increments, authEnv, builderErrs, heap, reqs, gen, sync, store, chat, guard, designPlan, query >>

\* lines 231-253: selectContext returns
SelectReturns ==
  /\ pc = "select"
  /\ \E u \in { NoUsage, SelectUsage } :
       /\ cumulativeUsage' = AddUsage(cumulativeUsage, u)
       /\ calls' = Settle(calls, "ok", NoError, u)
  /\ pc' = "loop"
  /\ UNCHANGED << env, fallbackChain, body, userSupabaseId, currentModel,
                  currentProvider, enhancedMessages, processedMessages,
                  attempt, maxRetries, result, lastError, response, callMsgs,
                  increments, authEnv, builderErrs, heap, reqs, gen, sync, store, chat, guard, designPlan, query >>

\* lines 212-248 and 372-409: createSummary or selectContext throws, which
\* the outer catch turns into the error response
ContextThrows_degrades ==
  /\ pc \in { "summary", "select" }
  /\ \E e \in PipelineErrors :
       calls' = Settle(calls, "error", e, NoUsage)
  /\ pc' = "loop"
  /\ UNCHANGED << env, fallbackChain, body, userSupabaseId, currentModel,
                  currentProvider, enhancedMessages, processedMessages,
                  cumulativeUsage, attempt, maxRetries, result, lastError,
                  response, callMsgs, increments, authEnv, builderErrs, heap,
                  reqs, gen, sync, store, chat, guard, designPlan, query >>

ContextThrows ==
  /\ pc \in { "summary", "select" }
  /\ \E e \in PipelineErrors :
       /\ calls' = Settle(calls, "error", e, NoUsage)
       /\ response' = ErrorResponse(e)
  /\ pc' = "done"
  /\ UNCHANGED << env, fallbackChain, body, userSupabaseId, currentModel,
                  currentProvider, enhancedMessages, processedMessages,
                  cumulativeUsage, attempt, maxRetries, result, lastError,
                  callMsgs, increments, authEnv, builderErrs, heap, reqs, gen, sync, store, chat, guard, designPlan, query >>


\* ------------------------------------------------------------------------
\* The retry / fallback loop, lines 264-319
\* ------------------------------------------------------------------------
NumBuilderCalls == Len(BuilderCalls)

\* lines 276-292: generateText is called with the current pair
IssueBuilder(log) ==
  /\ Len(SelectSeq(log, LAMBDA c : c.kind = "builder")) < MaxCalls
  /\ calls' = Append(log, Call("builder", currentModel, currentProvider))
  /\ callMsgs' = BuilderMessages(enhancedMessages, body.messages,
                                 processedMessages)

\* lines 321-371: the usage of the result is added, the total is handed to
\* incrementUsage when the user has a Supabase id, else the response is built
Finish(res, log) ==
  /\ cumulativeUsage' = AddUsage(cumulativeUsage, res.usage)
  /\ IF userSupabaseId # ""
       THEN /\ calls' = Append(log, Call("incrementUsage", "", ""))
            /\ pc' = "track"
            /\ response' = response
       ELSE /\ calls' = log
            /\ pc' = "done"
            /\ response' = SuccessResponse(cumulativeUsage')
  /\ UNCHANGED << currentModel, currentProvider, callMsgs >>

\* lines 309-318 (and the catch of 372-409 on exhaustion): the next pair of
\* the chain becomes current, or the last error is thrown
Fallback_redoContext(chain, log, err) ==
  LET nextFallback == getNextFallback(chain, currentModel)
  IN  /\ UNCHANGED << cumulativeUsage, callMsgs >>
      /\ IF nextFallback = NoFallback
           THEN /\ calls' = log
                /\ response' = ErrorResponse(err)
                /\ pc' = "done"
                /\ UNCHANGED << currentModel, currentProvider >>
           ELSE /\ currentModel' = nextFallback.model
                /\ currentProvider' = nextFallback.provider
                /\ calls' = IF body.optimize
                              THEN Append(log, Call("selectContext", "", ""))
                              ELSE log
                /\ pc' = IF body.optimize THEN "select" ELSE "loop"
                /\ response' = response

Fallback(chain, log, err) ==
  LET nextFallback == getNextFallback(chain, currentModel)
  IN  /\ calls' = log
      /\ UNCHANGED << cumulativeUsage, callMsgs >>
      /\ IF nextFallback = NoFallback
           THEN /\ response' =
                     ErrorResponse(IF err.nil
                                     THEN Err(<< "All models failed" >>, 0,
                                              "undefined")
                                     ELSE err)
                /\ pc' = "done"
                /\ UNCHANGED << currentModel, currentProvider >>
           ELSE /\ currentModel' = nextFallback.model
                /\ currentProvider' = nextFallback.provider
                /\ pc' = "loop"
                /\ response' = response

\* line 307 and what follows the for loop
AfterAttempts_alwaysFinish(chain, res, log, err) == Finish(res, log)

AfterAttempts(chain, res, log, err) ==
  IF LoopExits(res) THEN Finish(res, log) ELSE Fallback(chain, log, err)

\* lines 268-292: the head of the while loop and the first attempt of a pair
LoopHead ==
  /\ pc = "loop"
  /\ LET chain == getFallbackChain(fallbackChain, env)
     IN  /\ fallbackChain' = chain
         /\ maxRetries' = DriverMaxRetries(chain, currentModel)
  /\ attempt' = 0
  /\ IssueBuilder(calls)
  /\ pc' = "call"
  /\ UNCHANGED << env, body, userSupabaseId, currentModel, currentProvider,
                  enhancedMessages, processedMessages, cumulativeUsage,
                  result, lastError, response, increments, authEnv, builderErrs, heap, reqs, gen, sync, store, chat, guard,
                  designPlan, query >>

\* lines 293-294, 307, 321-371: the builder call returns a result
BuilderSucceeds ==
  /\ pc = "call"
  /\ \E u \in { NoUsage, BuilderUsage } :
       LET res == GenResult("html", "", u)
           chain == getFallbackChain(fallbackChain, env)
       IN  /\ result' = res
           /\ fallbackChain' = chain
           /\ AfterAttempts(chain, res, Settle(calls, "ok", NoError, u),
                            lastError)
  /\ UNCHANGED << env, body, userSupabaseId, enhancedMessages,
                  processedMessages, attempt, maxRetries, lastError,
                  increments, authEnv, builderErrs, heap, reqs, gen, sync, store, chat, guard, designPlan, query >>

\* lines 295-319: the builder call throws; the driver sleeps before a retry
\* or leaves the for loop
BuilderFails ==
  /\ pc = "call"
  /\ \E e \in builderErrs :
       LET chain == getFallbackChain(fallbackChain, env)
           log == Settle(calls, "error", e, NoUsage)
       IN  /\ lastError' = e
           /\ fallbackChain' = chain
           /\ IF RetrySameModel(chain, e, attempt, currentModel, maxRetries)
                THEN /\ calls' = Append(log, Sleep)
                     /\ pc' = "sleep"
                     /\ UNCHANGED << currentModel, currentProvider,
                                     cumulativeUsage, response, callMsgs >>
                ELSE AfterAttempts(chain, result, log, e)
  /\ UNCHANGED << env, body, userSupabaseId, enhancedMessages,
                  processedMessages, attempt, maxRetries, result, increments,
                  authEnv, builderErrs, heap, reqs, gen, sync, store, chat, guard, designPlan, query >>

\* lines 299 and 274-292: the backoff is over, attempt++ and the next call
SleepDone ==
  /\ pc = "sleep"
  /\ attempt' = attempt + 1
  /\ attempt' <= maxRetries
  /\ IssueBuilder(calls)
  /\ pc' = "call"
  /\ UNCHANGED << env, fallbackChain, body, userSupabaseId, currentModel,
                  currentProvider, enhancedMessages, processedMessages,
                  cumulativeUsage, maxRetries, result, lastError, response,
                  increments, authEnv, builderErrs, heap, reqs, gen, sync, store, chat, guard, designPlan, query >>

\* lines 329-371: incrementUsage returns or throws (the throw is caught), and
\* the 200 response is returned
TrackReturns ==
  /\ pc = "track"
  /\ \E ok \in BOOLEAN :
       /\ increments' =
            IF ok THEN Append(increments,
                              [ user |-> userSupabaseId,
                                type |-> "ai_generation",
                                tokens |-> cumulativeUsage[3] ])
                  ELSE increments
       /\ calls' = Settle(calls, IF ok THEN "ok" ELSE "error", NoError, NoUsage)
  /\ response' = SuccessResponse(cumulativeUsage)
  /\ pc' = "done"
  /\ UNCHANGED << env, fallbackChain, body, userSupabaseId, currentModel,
                  currentProvider, enhancedMessages, processedMessages,
                  cumulativeUsage, attempt, maxRetries, result, lastError,
                  callMsgs, authEnv, builderErrs, heap, reqs, gen, sync, store, chat, guard, designPlan, query >>

Next ==
  \/ Authenticate
  \/ ParseBody
  \/ PlanningReturns
  \/ PlanningThrows
  \/ Prepare
  \/ SummaryReturns
  \/ SelectReturns
  \/ ContextThrows
  \/ LoopHead
  \/ BuilderSucceeds
  \/ BuilderFails
  \/ SleepDone
  \/ TrackReturns

Spec == Init /\ [][Next]_vars


\* ------------------------------------------------------------------------
\* The registry called on its own: inputs drawn from bounded sets
\* ------------------------------------------------------------------------
RegistryErrors ==
  { Err(<< "Overloaded" >>, 0, "undefined"),
    Err(<< "Rate Limit", "exceeded" >>, 429, "true"),
    Err(<< "request", "TIMEOUT" >>, 0, "undefined"),
    Err(<< "Network", "down" >>, 0, "undefined"),
    Err(<< "status", "429" >>, 0, "undefined"),
    Err(<< "status", "503" >>, 0, "undefined"),
    Err(<< "status", "500" >>, 0, "undefined"),
    Err(<< "did not match", "pattern" >>, 0, "undefined"),
    Err(<< "Invalid", "API key" >>, 401, "false"),
    Err(<< "network", "unreachable" >>, 0, "undefined"),
    Err(NoMessage, 0, "undefined") }

RegistryModels ==
  { "A", "Z", DefaultModels[1], DefaultModels[2], DefaultModels[3],
    DefaultModels[4] }

RegistryInit ==
  /\ env \in Envs
  /\ body = [ messages |-> << >>, chatMode |-> "discuss",
              useKimiPlanning |-> "undefined", requestedModel |-> Unset,
              requestedProvider |-> Unset, optimize |-> FALSE ]
  /\ authEnv = "allowed"
  /\ builderErrs = {}
  /\ heap = << >>
  /\ reqs = << >>
  /\ gen = NoGen
  /\ sync = NoSync
  /\ store = NoStore
  /\ chat = NoChat
  /\ guard = NoGuard
  /\ fallbackChain = NullChain
  /\ pc = "registry"
  /\ userSupabaseId = ""
  /\ currentModel = ""
  /\ currentProvider = ""
  /\ enhancedMessages = << >>
  /\ processedMessages = << >>
  /\ cumulativeUsage = ZeroUsage
  /\ attempt = 0
  /\ maxRetries = 0
  /\ result = NoResult
  /\ lastError = NoError
  /\ response = NoResponse
  /\ calls = << >>
  /\ callMsgs = << >>
  /\ increments = << >>
  /\ designPlan = ""
  /\ query = NoQuery

\* the registry's state is _fallbackChain alone
RegistryUnchanged ==
  UNCHANGED << pc, body, userSupabaseId, currentModel, currentProvider,
               enhancedMessages, processedMessages, cumulativeUsage, attempt,
               maxRetries, result, lastError, response, calls, callMsgs,
               increments, authEnv, builderErrs, heap, reqs, gen, sync, store, chat, guard, designPlan >>

\* shouldRetry(error, currentRetry, model)
CallShouldRetry ==
  /\ pc = "registry"
  /\ \E e \in RegistryErrors, n \in 0..MaxRetryArg, m \in RegistryModels :
       LET chain == getFallbackChain(fallbackChain, env)
       IN  /\ fallbackChain' = chain
           /\ query' = [ NoQuery EXCEPT
                           !.fn = "shouldRetry", !.error = e, !.count = n,
                           !.model = m, !.ret = shouldRetry(chain, e, n, m) ]
  /\ env' = env
  /\ RegistryUnchanged

\* getFallbackChain()
CallGetFallbackChain ==
  /\ pc = "registry"
  /\ fallbackChain' = getFallbackChain(fallbackChain, env)
  /\ query' = [ NoQuery EXCEPT !.fn = "getFallbackChain" ]
  /\ env' = env
  /\ RegistryUnchanged

\* getDefaultModel()
CallGetDefaultModel ==
  /\ pc = "registry"
  /\ LET chain == getFallbackChain(fallbackChain, env)
     IN  /\ fallbackChain' = chain
         /\ query' = [ NoQuery EXCEPT
                         !.fn = "getDefaultModel",
                         !.entry = getDefaultModel(chain),
                         !.walk = << getDefaultModel(chain) >> ]
  /\ env' = env
  /\ RegistryUnchanged

\* getNextFallback(currentModel); a call on the model of the entry the
\* previous call returned continues the walk
CallGetNextFallback ==
  /\ pc = "registry"
  /\ \E m \in RegistryModels :
       LET chain == getFallbackChain(fallbackChain, env)
           next == getNextFallback(chain, m)
           continues == /\ query.walk # << >>
                        /\ query.entry.model = m
                        /\ Len(query.walk) < MaxWalk
       IN  /\ fallbackChain' = chain
           /\ query' = [ NoQuery EXCEPT
                           !.fn = "getNextFallback", !.model = m,
                           !.entry = next,
                           !.walk = IF continues THEN Append(query.walk, next)
                                                 ELSE << >> ]
  /\ env' = env
  /\ RegistryUnchanged

\* the process environment is assigned to while the process runs
SetEnv ==
  /\ pc = "registry"
  /\ env' \in Envs \ { env }
  /\ query' = [ NoQuery EXCEPT !.fn = "setEnv" ]
  /\ UNCHANGED fallbackChain
  /\ RegistryUnchanged

RegistryNext ==
  \/ CallShouldRetry
  \/ CallGetFallbackChain
  \/ CallGetDefaultModel
  \/ CallGetNextFallback
  \/ SetEnv

RegistrySpec == RegistryInit /\ [][RegistryNext]_vars

\* ------------------------------------------------------------------------
\* Usage accounting of requests served concurrently, lines 186-371: each
\* invocation of chatAction runs between its awaits, interleaved with the
\* others
\* ------------------------------------------------------------------------
Requests == 1..NumRequests

\* a sub-call that returned, with the usage object it reported
SubCall(kind, usage) == [ kind |-> kind, usage |-> usage ]

\* const cumulativeUsage = { ... }: the object literal of line 186 is a new
\* object of the heap at every invocation
AccumulatorRef_shared(h, r) == 1

AccumulatorRef(h, r) == Len(h) + 1

\* the heap after the object at ref was initialised by the literal
Allocate(h, ref) ==
  [ i \in 1..(IF ref > Len(h) THEN ref ELSE Len(h)) |->
      IF i = ref THEN ZeroUsage ELSE h[i] ]

\* cumulativeUsage.x += usage.x || 0 on the object at ref
Accumulate(h, ref, usage) == [ h EXCEPT ![ref] = AddUsage(@, usage) ]

ConcurrentInit ==
  /\ env = DefaultEnv
  /\ body = [ messages |-> << >>, chatMode |-> "discuss",
              useKimiPlanning |-> "undefined", requestedModel |-> Unset,
              requestedProvider |-> Unset, optimize |-> FALSE ]
  /\ authEnv = "allowed"
  /\ builderErrs = {}
  /\ fallbackChain = NullChain
  /\ pc = "concurrent"
  /\ userSupabaseId = ""
  /\ currentModel = ""
  /\ currentProvider = ""
  /\ enhancedMessages = << >>
  /\ processedMessages = << >>
  /\ cumulativeUsage = ZeroUsage
  /\ attempt = 0
  /\ maxRetries = 0
  /\ result = NoResult
  /\ lastError = NoError
  /\ response = NoResponse
  /\ calls = << >>
  /\ callMsgs = << >>
  /\ increments = << >>
  /\ designPlan = ""
  /\ query = NoQuery
  /\ heap = << >>
  /\ reqs = [ r \in Requests |->
                [ pc |-> "prepare", acc |-> 0, own |-> << >>,
                  reported |-> NoUsage, persisted |-> -1 ] ]
  /\ gen = NoGen
  /\ sync = NoSync
  /\ store = NoStore
  /\ chat = NoChat
  /\ guard = NoGuard

ConcurrentUnchanged ==
  UNCHANGED << env, fallbackChain, pc, body, userSupabaseId, currentModel,
               currentProvider, enhancedMessages, processedMessages,
               cumulativeUsage, attempt, maxRetries, result, lastError,
               response, calls, callMsgs, increments, authEnv, designPlan,
               query, builderErrs, gen, sync, store, chat, guard >>

\* lines 186-227 of request r: its accumulator is created, and createSummary
\* is called when contextOptimization is set
ReqPrepare(r) ==
  /\ reqs[r].pc = "prepare"
  /\ LET ref == AccumulatorRef(heap, r)
     IN  /\ heap' = Allocate(heap, ref)
         /\ \E optimize \in BOOLEAN :
              reqs' = [ reqs EXCEPT
                          ![r].acc = ref,
                          ![r].pc = IF optimize THEN "summary" ELSE "call" ]
  /\ ConcurrentUnchanged

\* lines 212-227 of request r: the onFinish of createSummary adds its usage
ReqSummaryReturns(r) ==
  /\ reqs[r].pc = "summary"
  /\ \E u \in { NoUsage, SummaryUsage } :
       /\ heap' = Accumulate(heap, reqs[r].acc, u)
       /\ reqs' = [ reqs EXCEPT
                      ![r].own = Append(@, SubCall("summary", u)),
                      ![r].pc = "select" ]
  /\ ConcurrentUnchanged

\* lines 231-248 of request r: the onFinish of selectContext adds its usage
ReqSelectReturns(r) ==
  /\ reqs[r].pc = "select"
  /\ \E u \in { NoUsage, SelectUsage } :
       /\ heap' = Accumulate(heap, reqs[r].acc, u)
       /\ reqs' = [ reqs EXCEPT
                      ![r].own = Append(@, SubCall("selectContext", u)),
                      ![r].pc = "call" ]
  /\ ConcurrentUnchanged

\* lines 276-333 of request r: generateText returns, its usage is added and
\* incrementUsage is called with the total
ReqBuilderReturns(r) ==
  /\ reqs[r].pc = "call"
  /\ \E u \in { NoUsage, BuilderUsage } :
       /\ heap' = Accumulate(heap, reqs[r].acc, u)
       /\ reqs' = [ reqs EXCEPT
                      ![r].own = Append(@, SubCall("builder", u)),
                      ![r].persisted = heap'[reqs[r].acc][3],
                      ![r].pc = "track" ]
  /\ ConcurrentUnchanged

\* lines 336-371 of request r: incrementUsage has returned and the response
\* carries the fields of the accumulator
ReqResponds(r) ==
  /\ reqs[r].pc = "track"
  /\ reqs' = [ reqs EXCEPT
                 ![r].reported = heap[reqs[r].acc],
                 ![r].pc = "done" ]
  /\ heap' = heap
  /\ ConcurrentUnchanged

ConcurrentNext ==
  \E r \in Requests :
    \/ ReqPrepare(r)
    \/ ReqSummaryReturns(r)
    \/ ReqSelectReturns(r)
    \/ ReqBuilderReturns(r)
    \/ ReqResponds(r)

ConcurrentSpec == ConcurrentInit /\ [][ConcurrentNext]_vars

\* ------------------------------------------------------------------------
\* generateText (generate-text.ts) called on its own: which model of which
\* provider a call invokes
\* ------------------------------------------------------------------------
DEFAULT_MODEL == "<DEFAULT_MODEL>"

\* the names of PROVIDER_LIST
PROVIDER_LIST == << "OpenRouter", "Novita" >>

\* the staticModels of the two providers
StaticModels(provider) ==
  IF provider = "OpenRouter"
    THEN << "anthropic/claude-3.5-sonnet", "openai/gpt-4o", "x-ai/grok-4-fast" >>
    ELSE << "qwen/qwen3-coder-480b-a35b-instruct" >>

\* extractPropertiesFromMessage(message).model / .provider: the tag of the
\* message, else the default
ExtractModel(message) ==
  LET tags == SelectSeq(message.content, LAMBDA t : t.k = "Model")
  IN  IF tags = << >> THEN DEFAULT_MODEL ELSE tags[1].v

ExtractProvider(message, defaultProvider) ==
  LET tags == SelectSeq(message.content, LAMBDA t : t.k = "Provider")
  IN  IF tags = << >> THEN defaultProvider ELSE tags[1].v

\* lines 84-105: the forced value, else that of the last user message, else
\* the default
CurrentModel(messages, forceModel) ==
  LET users == SelectSeq(messages, LAMBDA m : m.role = "user")
  IN  IF forceModel # "" THEN forceModel
      ELSE IF users = << >> THEN DEFAULT_MODEL
      ELSE ExtractModel(users[Len(users)])

CurrentProvider(messages, forceProvider, defaultProvider) ==
  LET users == SelectSeq(messages, LAMBDA m : m.role = "user")
  IN  IF forceProvider # "" THEN forceProvider
      ELSE IF users = << >> THEN defaultProvider
      ELSE ExtractProvider(users[Len(users)], defaultProvider)

SeqHas(seq, x) == \E i \in 1..Len(seq) : seq[i] = x

\* line 107: PROVIDER_LIST.find(p => p.name === currentProvider)
\*           || DEFAULT_PROVIDER
FindProvider(name, defaultProvider) ==
  IF SeqHas(PROVIDER_LIST, name) THEN name ELSE defaultProvider

\* lines 108-133: the model of the static list, else of the static list
\* followed by the provider's dynamic list, else the first of these
FindModelDetails(provider, modelName, dynamicModels) ==
  LET modelsList == StaticModels(provider) \o dynamicModels
  IN  IF SeqHas(StaticModels(provider), modelName) THEN modelName
      ELSE IF modelsList = << >> THEN "<throws>"
      ELSE IF SeqHas(modelsList, modelName) THEN modelName
      ELSE modelsList[1]

\* the inputs of a call: messages with and without tags, the forced pair
\* (a chain entry of one of the environments, or none), and the models the
\* provider lists beyond its static ones
GenMessages == { << U1 >>, << U2 >>, << U1, A1, U2 >> }

GenForceModels ==
  { "", "A", DefaultModels[1], DefaultModels[2], DefaultModels[3],
    DefaultModels[4] }

GenForceProviders == { "", "OpenRouter", "Novita", "P" }

GenDynamicModels ==
  { << >>, << "google/gemini-2.5-flash", "qwen/qwen3-coder" >> }

GenerateInit ==
  /\ env = DefaultEnv
  /\ body = [ messages |-> << >>, chatMode |-> "discuss",
              useKimiPlanning |-> "undefined", requestedModel |-> Unset,
              requestedProvider |-> Unset, optimize |-> FALSE ]
  /\ authEnv = "allowed"
  /\ builderErrs = {}
  /\ fallbackChain = NullChain
  /\ pc = "generateText"
  /\ userSupabaseId = ""
  /\ currentModel = ""
  /\ currentProvider = ""
  /\ enhancedMessages = << >>
  /\ processedMessages = << >>
  /\ cumulativeUsage = ZeroUsage
  /\ attempt = 0
  /\ maxRetries = 0
  /\ result = NoResult
  /\ lastError = NoError
  /\ response = NoResponse
  /\ calls = << >>
  /\ callMsgs = << >>
  /\ increments = << >>
  /\ designPlan = ""
  /\ query = NoQuery
  /\ heap = << >>
  /\ reqs = << >>
  /\ sync = NoSync
  /\ store = NoStore
  /\ chat = NoChat
  /\ guard = NoGuard
  /\ gen \in [ messages : GenMessages, forceModel : GenForceModels,
                forceProvider : GenForceProviders,
                dynamicModels : GenDynamicModels,
                defaultProvider : { "OpenRouter" },
                outcome : { "none" }, model : { "" }, provider : { "" } ]

\* generateText(props), up to the call of the AI SDK
CallGenerateText ==
  /\ gen.outcome = "none"
  /\ LET model == CurrentModel(gen.messages, gen.forceModel)
         name == CurrentProvider(gen.messages, gen.forceProvider,
                                 gen.defaultProvider)
         provider == FindProvider(name, gen.defaultProvider)
         details == FindModelDetails(provider, model, gen.dynamicModels)
     IN  gen' = [ gen EXCEPT
                    !.outcome = IF details = "<throws>" THEN "throws"
                                                        ELSE "invoked",
                    !.model = details,
                    !.provider = provider ]
  /\ UNCHANGED << env, fallbackChain, pc, body, userSupabaseId, currentModel,
                  currentProvider, enhancedMessages, processedMessages,
                  cumulativeUsage, attempt, maxRetries, result, lastError,
                  response, calls, callMsgs, increments, authEnv, designPlan,
                  query, builderErrs, heap, reqs, sync, store, chat, guard >>

GenerateNext == CallGenerateText

GenerateSpec == GenerateInit /\ [][GenerateNext]_vars

\* ------------------------------------------------------------------------
\* ProjectSyncService (project-sync.ts). The options of the n-th call of
\* queueSync or forceSyncProject are named by n; a retry timer passes the
\* options of the failed sync on, so an older options object has a smaller
\* name than a newer one. A syncProject execution runs from its start to
\* its success or its catch, interleaved with calls, timers and the other
\* executions.
\* ------------------------------------------------------------------------
Projects == { "p1", "p2" }

MAX_RETRIES == 3

\* Map.prototype.set on syncQueue: the value of an existing key is replaced
\* in place, a new key is added at the end
MapSet(queue, projectId, v) ==
  IF \E i \in 1..Len(queue) : queue[i].projectId = projectId
    THEN [ i \in 1..Len(queue) |->
             IF queue[i].projectId = projectId
               THEN [ projectId |-> projectId, v |-> v ]
               ELSE queue[i] ]
    ELSE Append(queue, [ projectId |-> projectId, v |-> v ])

\* Map.prototype.delete on syncQueue
MapDelete(queue, projectId) ==
  SelectSeq(queue, LAMBDA en : en.projectId # projectId)

\* options.projectId
ProjectOf(s, v) == s.issued[v].projectId

\* syncProject(options) is entered
StartSync(s, v, via) ==
  [ s EXCEPT !.running = @ \cup { [ v |-> v, via |-> via ] },
             !.attempts[v] = @ + 1 ]

\* the for loop of processSyncQueue takes the next entry of the map, or the
\* finally block ends the run
ContinueQueue(s) ==
  IF s.syncQueue = << >>
    THEN [ s EXCEPT !.isSyncing = FALSE ]
    ELSE StartSync(s, s.syncQueue[1].v, "queue")

processSyncQueue(s) ==
  IF s.isSyncing \/ s.syncQueue = << >>
    THEN s
    ELSE ContinueQueue([ s EXCEPT !.isSyncing = TRUE ])

queueSync(s, v) ==
  processSyncQueue(
    [ s EXCEPT !.syncQueue = MapSet(@, ProjectOf(s, v), v) ])

\* retries < this.MAX_RETRIES
CanRetry(retries) == retries < MAX_RETRIES

\* lines 120-138: the end of syncProject, in the try or in the catch
EndSync(s, x, ok) ==
  LET projectId == ProjectOf(s, x.v)
      s1 == [ s EXCEPT !.running = @ \ { x } ]
  IN  IF ok
        THEN [ s1 EXCEPT !.written[projectId] = Append(@, x.v),
                         !.retryCount[projectId] = 0 ]
        ELSE IF CanRetry(s.retryCount[projectId])
          THEN [ s1 EXCEPT !.retryCount[projectId] = @ + 1,
                           !.timers = @ \cup { x.v } ]
          ELSE [ s1 EXCEPT !.retryCount[projectId] = 0,
                           !.givenUp = @ \cup { x.v } ]

\* line 43 and the next turn of the loop, for an execution the queue started
AfterSync(s, x) ==
  IF x.via = "queue"
    THEN ContinueQueue(
           [ s EXCEPT !.syncQueue = MapDelete(@, ProjectOf(s, x.v)) ])
    ELSE s

SyncInit ==
  /\ env = DefaultEnv
  /\ body = [ messages |-> << >>, chatMode |-> "discuss",
              useKimiPlanning |-> "undefined", requestedModel |-> Unset,
              requestedProvider |-> Unset, optimize |-> FALSE ]
  /\ authEnv = "allowed"
  /\ builderErrs = {}
  /\ fallbackChain = NullChain
  /\ pc = "sync"
  /\ userSupabaseId = ""
  /\ currentModel = ""
  /\ currentProvider = ""
  /\ enhancedMessages = << >>
  /\ processedMessages = << >>
  /\ cumulativeUsage = ZeroUsage
  /\ attempt = 0
  /\ maxRetries = 0
  /\ result = NoResult
  /\ lastError = NoError
  /\ response = NoResponse
  /\ calls = << >>
  /\ callMsgs = << >>
  /\ increments = << >>
  /\ designPlan = ""
  /\ query = NoQuery
  /\ heap = << >>
  /\ reqs = << >>
  /\ gen = NoGen
  /\ sync = [ syncQueue |-> << >>,
              retryCount |-> [ p \in Projects |-> 0 ],
              isSyncing |-> FALSE,
              running |-> {},
              timers |-> {},
              issued |-> << >>,
              attempts |-> << >>,
              written |-> [ p \in Projects |-> << >> ],
              givenUp |-> {} ]
  /\ store = NoStore
  /\ chat = NoChat
  /\ guard = NoGuard

SyncUnchanged ==
  UNCHANGED << env, fallbackChain, pc, body, userSupabaseId, currentModel,
               currentProvider, enhancedMessages, processedMessages,
               cumulativeUsage, attempt, maxRetries, result, lastError,
               response, calls, callMsgs, increments, authEnv, designPlan,
               query, builderErrs, heap, reqs, gen, store, chat, guard >>

\* a new options object for a project
Issue(s, projectId, via) ==
  [ s EXCEPT !.issued = Append(@, [ projectId |-> projectId, via |-> via ]),
             !.attempts = Append(@, 0) ]

\* projectSync.queueSync(options)
QueueSync ==
  /\ Len(sync.issued) < MaxSyncCalls
  /\ \E projectId \in Projects :
       sync' = queueSync(Issue(sync, projectId, "queueSync"),
                         Len(sync.issued) + 1)
  /\ SyncUnchanged

\* projectSync.forceSyncProject(options)
ForceSyncProject ==
  /\ Len(sync.issued) < MaxSyncCalls
  /\ \E projectId \in Projects :
       sync' = StartSync(Issue(sync, projectId, "forceSyncProject"),
                         Len(sync.issued) + 1, "force")
  /\ SyncUnchanged

\* the callback of the setTimeout of line 131
TimerFires ==
  /\ \E v \in sync.timers :
       sync' = queueSync([ sync EXCEPT !.timers = @ \ { v } ], v)
  /\ SyncUnchanged

\* lines 68-122: every call on supabasePersistence returned
SyncSucceeds ==
  /\ \E x \in sync.running :
       sync' = AfterSync(EndSync(sync, x, TRUE), x)
  /\ SyncUnchanged

\* lines 123-138: a call on supabasePersistence threw
SyncFails ==
  /\ \E x \in sync.running :
       sync' = AfterSync(EndSync(sync, x, FALSE), x)
  /\ SyncUnchanged

SyncNext ==
  \/ QueueSync
  \/ ForceSyncProject
  \/ TimerFires
  \/ SyncSucceeds
  \/ SyncFails

SyncSpec == SyncInit /\ [][SyncNext]_vars

\* ------------------------------------------------------------------------
\* syncProject and the tables it writes (project-sync.ts, lines 53-139).
\* An execution advances by one call on supabasePersistence at a time;
\* forceSyncProject lets an execution start while another one is awaiting.
\* The tables are those the calls name: projects, chat history, project
\* files. A text is a sequence of characters.
\* ------------------------------------------------------------------------
IsSpace(c) == c = " "

\* String.prototype.trim
RECURSIVE TrimStart(_)
TrimStart(text) ==
  IF text # << >> /\ IsSpace(Head(text)) THEN TrimStart(Tail(text)) ELSE text

RECURSIVE TrimEnd(_)
TrimEnd(text) ==
  IF text # << >> /\ IsSpace(text[Len(text)])
    THEN TrimEnd(SubSeq(text, 1, Len(text) - 1))
    ELSE text

Trim(text) == TrimEnd(TrimStart(text))

\* message.content && message.content.trim().length > 0
NonBlank(message) ==
  message.content # << >> /\ Len(Trim(message.content)) > 0

Message(id, content) == [ id |-> id, content |-> content ]

\* the messages, project names and files of the options handed to syncProject
SyncMessages ==
  { << >>,
    << Message("m1", <<"h", "i">>) >>,
    << Message("m1", <<"h", "i">>), Message("m2", <<" ", " ">>),
       Message("m3", <<" ", "o", "k">>) >>,
    << Message("m4", << >>) >>,
    << Message("m5", <<"y", "o">>) >> }

SyncNames == { "A", "B" }

SyncFiles ==
  { {}, { [ filePath |-> "index.html", type |-> "file", content |-> "x" ] } }

SyncOptions ==
  [ projectId : Projects, projectName : SyncNames,
    messages : SyncMessages, files : SyncFiles ]

\* lines 60-61
HasMessages(options) == Len(options.messages) > 0

HasFiles(options) == options.files # {}

\* the messages that the loop of lines 89-98 saves
Saved(messages) == SelectSeq(messages, NonBlank)

\* projects.find((p) => p.id === projectId)
ExistingProject(projects, projectId) ==
  LET at == { i \in 1..Len(projects) : projects[i].id = projectId }
  IN  IF at = {}
        THEN [ found |-> FALSE, name |-> "" ]
        ELSE [ found |-> TRUE,
               name |-> projects[CHOOSE i \in at : \A j \in at : i <= j].name ]

\* a || b || c on strings
OrName(a, b, c) == IF a # "" THEN a ELSE IF b # "" THEN b ELSE c

\* the id columns of the projects and chat history tables are primary keys:
\* an insert of an id that is stored already is refused, and the call throws
ProjectIdTaken(t, projectId) ==
  \E i \in 1..Len(t.projects) : t.projects[i].id = projectId

MessageIdTaken(t, id) ==
  \E i \in 1..Len(t.history) : t.history[i].id = id

\* supabasePersistence.createProject(name, description, id)
createProject(t, name, projectId) ==
  [ t EXCEPT !.projects =
      Append(@, [ id |-> projectId, name |-> name, updates |-> 0 ]) ]

\* supabasePersistence.updateProject(id, { name, updated_at })
updateProject(t, projectId, name) ==
  [ t EXCEPT !.projects =
      [ i \in 1..Len(@) |->
          IF @[i].id = projectId
            THEN [ @[i] EXCEPT !.name = name, !.updates = @ + 1 ]
            ELSE @[i] ] ]

\* supabasePersistence.deleteChatHistory(projectId)
deleteChatHistory(t, projectId) ==
  [ t EXCEPT !.history = SelectSeq(@, LAMBDA row : row.projectId # projectId) ]

\* supabasePersistence.saveChatMessage({ id, projectId, role, content })
saveChatMessage(t, projectId, message) ==
  [ t EXCEPT !.history =
      Append(@, [ projectId |-> projectId, id |-> message.id,
                  content |-> message.content ]) ]

\* supabasePersistence.saveProjectFile({ projectId, filePath, content })
saveProjectFile(t, projectId, file) ==
  [ t EXCEPT !.files =
      { row \in @ : ~(row.projectId = projectId /\ row.filePath = file.filePath) }
        \cup { [ projectId |-> projectId, filePath |-> file.filePath,
                 content |-> file.content ] } ]

\* the tables, without the executions
Tables(st) == [ projects |-> st.projects, history |-> st.history,
                files |-> st.files ]

\* where an execution goes after the project was ensured, and after the
\* messages were saved
AfterEnsure(options) ==
  IF HasMessages(options) THEN "deleteChatHistory"
  ELSE IF HasFiles(options) THEN "saveProjectFile"
  ELSE "done"

AfterMessages(options) ==
  IF HasFiles(options) THEN "saveProjectFile" ELSE "done"

\* the position after the message at index i was handled
AfterMessage(options, i) ==
  IF \E j \in (i + 1)..Len(Saved(options.messages)) : TRUE
    THEN "saveChatMessage"
    ELSE AfterMessages(options)

PersistInit ==
  /\ env = DefaultEnv
  /\ body = [ messages |-> << >>, chatMode |-> "discuss",
              useKimiPlanning |-> "undefined", requestedModel |-> Unset,
              requestedProvider |-> Unset, optimize |-> FALSE ]
  /\ authEnv = "allowed"
  /\ builderErrs = {}
  /\ fallbackChain = NullChain
  /\ pc = "persist"
  /\ userSupabaseId = ""
  /\ currentModel = ""
  /\ currentProvider = ""
  /\ enhancedMessages = << >>
  /\ processedMessages = << >>
  /\ cumulativeUsage = ZeroUsage
  /\ attempt = 0
  /\ maxRetries = 0
  /\ result = NoResult
  /\ lastError = NoError
  /\ response = NoResponse
  /\ calls = << >>
  /\ callMsgs = << >>
  /\ increments = << >>
  /\ designPlan = ""
  /\ query = NoQuery
  /\ heap = << >>
  /\ reqs = << >>
  /\ gen = NoGen
  /\ sync = NoSync
  /\ chat = NoChat
  /\ guard = NoGuard
  /\ store = [ projects |-> << >>, history |-> << >>, files |-> {},
               execs |-> << >> ]

PersistUnchanged ==
  UNCHANGED << env, fallbackChain, pc, body, userSupabaseId, currentModel,
               currentProvider, enhancedMessages, processedMessages,
               cumulativeUsage, attempt, maxRetries, result, lastError,
               response, calls, callMsgs, increments, authEnv, designPlan,
               query, builderErrs, heap, reqs, gen, sync, chat, guard >>

\* an execution of syncProject: its options, its position, the project it
\* found, the number of messages it saved, the calls it made on
\* supabasePersistence, the tables as they were when it was entered, and
\* whether it was entered right after a successful sync of the same options
Execution(options, at, before, resync) ==
  [ options |-> options, at |-> at, existing |-> [ found |-> FALSE, name |-> "" ],
    saved |-> 0, calls |-> 0, before |-> before, resync |-> resync ]

\* the executions so far have ended and the latest one synced the options
JustSynced(execs, options) ==
  /\ execs # << >>
  /\ \A j \in 1..Len(execs) : execs[j].at \in { "done", "failed", "skipped" }
  /\ execs[Len(execs)].at = "done"
  /\ execs[Len(execs)].options = options

\* lines 53-66: syncProject is entered
EnterSyncProject ==
  /\ Len(store.execs) < MaxSyncs
  /\ \E options \in SyncOptions :
       store' = [ store EXCEPT !.execs =
         Append(@, Execution(options,
                     IF ~HasMessages(options) /\ ~HasFiles(options)
                       THEN "skipped" ELSE "getProjects",
                     Tables(store), JustSynced(store.execs, options))) ]
  /\ PersistUnchanged

\* lines 69-70
GetProjects ==
  /\ \E i \in 1..Len(store.execs) :
       /\ store.execs[i].at = "getProjects"
       /\ store' = [ store EXCEPT
            !.execs[i].existing =
               ExistingProject(store.projects, store.execs[i].options.projectId),
            !.execs[i].at = "ensure",
            !.execs[i].calls = @ + 1 ]
  /\ PersistUnchanged

\* lines 72-82
EnsureProject ==
  /\ \E i \in 1..Len(store.execs) :
       LET x == store.execs[i]
           o == x.options
           t == IF ~x.existing.found
                  THEN createProject(store, o.projectName, o.projectId)
                  ELSE updateProject(store, o.projectId,
                         OrName(o.projectName, x.existing.name,
                                "Untitled Project"))
       IN  /\ x.at = "ensure"
           /\ store' =
                IF ~x.existing.found /\ ProjectIdTaken(store, o.projectId)
                  THEN [ store EXCEPT !.execs[i].at = "failed",
                                      !.execs[i].calls = @ + 1 ]
                  ELSE [ t EXCEPT !.execs[i].at = AfterEnsure(o),
                                  !.execs[i].calls = @ + 1 ]
  /\ PersistUnchanged

\* line 87
DeleteChatHistory ==
  /\ \E i \in 1..Len(store.execs) :
       LET x == store.execs[i]
           o == x.options
       IN  /\ x.at = "deleteChatHistory"
           /\ store' = [ deleteChatHistory(store, o.projectId) EXCEPT
                !.execs[i].at = AfterMessage(o, 0),
                !.execs[i].calls = @ + 1 ]
  /\ PersistUnchanged

\* lines 90-98, one turn of the loop that saves a message
SaveChatMessage ==
  /\ \E i \in 1..Len(store.execs) :
       LET x == store.execs[i]
           o == x.options
           n == x.saved + 1
       IN  /\ x.at = "saveChatMessage"
           /\ store' =
                IF MessageIdTaken(store, Saved(o.messages)[n].id)
                  THEN [ store EXCEPT !.execs[i].at = "failed",
                                      !.execs[i].calls = @ + 1 ]
                  ELSE [ saveChatMessage(store, o.projectId,
                                         Saved(o.messages)[n])
                           EXCEPT !.execs[i].saved = n,
                                  !.execs[i].at = AfterMessage(o, n),
                                  !.execs[i].calls = @ + 1 ]
  /\ PersistUnchanged

\* lines 103-116
SaveProjectFiles ==
  /\ \E i \in 1..Len(store.execs) :
       LET x == store.execs[i]
           o == x.options
           file == CHOOSE f \in o.files : TRUE
       IN  /\ x.at = "saveProjectFile"
           /\ store' =
                [ (IF file.type = "file" /\ file.content # ""
                     THEN saveProjectFile(store, o.projectId, file)
                     ELSE store)
                    EXCEPT !.execs[i].at = "done",
                           !.execs[i].calls = @ + 1 ]
  /\ PersistUnchanged

\* line 123: the call the execution is waiting for throws
PersistenceThrows ==
  /\ \E i \in 1..Len(store.execs) :
       /\ store.execs[i].at \in
            { "getProjects", "ensure", "deleteChatHistory", "saveChatMessage",
              "saveProjectFile" }
       /\ store' = [ store EXCEPT !.execs[i].at = "failed",
                                  !.execs[i].calls = @ + 1 ]
  /\ PersistUnchanged

PersistNext ==
  \/ EnterSyncProject
  \/ GetProjects
  \/ EnsureProject
  \/ DeleteChatHistory
  \/ SaveChatMessage
  \/ SaveProjectFiles
  \/ PersistenceThrows

PersistSpec == PersistInit /\ [][PersistNext]_vars

\* ------------------------------------------------------------------------
\* useAdaptiveChat in non-streaming mode (useAdaptiveChat.ts). The hook
\* keeps the messages in React state and in messagesRef; the ref follows
\* the state when the effect of lines 27-29 runs, after the render that a
\* state change causes. A call of append runs to its fetch, and from the
\* arrival of the response to its end.
\* ------------------------------------------------------------------------
ChatMessage(id, role) == [ id |-> id, role |-> role ]

\* options.initialMessages || []
InitialMessages ==
  { << >>,
    << ChatMessage("u0", "user") >>,
    << ChatMessage("u0", "user"), ChatMessage("a0", "assistant") >>,
    << ChatMessage("s0", "system"), ChatMessage("a0", "assistant") >> }

\* the ids of the messages the user types and of the replies of the server
UserIds == << "u1", "u2", "u3", "u4" >>

ReplyIds == << "a1", "a2", "a3", "a4" >>

\* Array.prototype.slice(0, -1)
DropLast(messages) ==
  IF messages = << >> THEN << >> ELSE SubSeq(messages, 1, Len(messages) - 1)

ChatInit ==
  /\ env = DefaultEnv
  /\ body = [ messages |-> << >>, chatMode |-> "discuss",
              useKimiPlanning |-> "undefined", requestedModel |-> Unset,
              requestedProvider |-> Unset, optimize |-> FALSE ]
  /\ authEnv = "allowed"
  /\ builderErrs = {}
  /\ fallbackChain = NullChain
  /\ pc = "chat"
  /\ userSupabaseId = ""
  /\ currentModel = ""
  /\ currentProvider = ""
  /\ enhancedMessages = << >>
  /\ processedMessages = << >>
  /\ cumulativeUsage = ZeroUsage
  /\ attempt = 0
  /\ maxRetries = 0
  /\ result = NoResult
  /\ lastError = NoError
  /\ response = NoResponse
  /\ calls = << >>
  /\ callMsgs = << >>
  /\ increments = << >>
  /\ designPlan = ""
  /\ query = NoQuery
  /\ heap = << >>
  /\ reqs = << >>
  /\ gen = NoGen
  /\ sync = NoSync
  /\ store = NoStore
  /\ guard = NoGuard
  /\ \E initial \in InitialMessages :
       chat = [ messages |-> initial,      \* nonStreamMessages
                ref |-> initial,           \* messagesRef.current
                loading |-> FALSE,         \* nonStreamLoading
                error |-> FALSE,           \* nonStreamError is set
                requests |-> << >>,        \* the fetches of nonStreamAppend
                reloads |-> << >> ]        \* the calls of nonStreamReload

ChatUnchanged ==
  UNCHANGED << env, fallbackChain, pc, body, userSupabaseId, currentModel,
               currentProvider, enhancedMessages, processedMessages,
               cumulativeUsage, attempt, maxRetries, result, lastError,
               response, calls, callMsgs, increments, authEnv, designPlan,
               query, builderErrs, heap, reqs, gen, sync, store, guard >>

\* lines 32-50 of nonStreamAppend: up to the fetch, which carries newMessages
nonStreamAppend(c, message, via) ==
  LET newMessages == Append(c.ref, message)
  IN  [ c EXCEPT !.loading = TRUE,
                 !.error = FALSE,
                 !.messages = newMessages,
                 !.requests = Append(@, [ sent |-> newMessages,
                                          message |-> message,
                                          via |-> via,
                                          rendered |-> c.ref = c.messages,
                                          status |-> "pending" ]) ]

\* the number of calls made on the hook
ChatCalls(c) ==
  Len(SelectSeq(c.requests, LAMBDA r : r.via = "append")) + Len(c.reloads)

\* append(message), with a message the user typed
CallAppend ==
  /\ ChatCalls(chat) < MaxChatCalls
  /\ chat' = nonStreamAppend(chat,
               ChatMessage(UserIds[Len(chat.requests) + 1], "user"), "append")
  /\ ChatUnchanged

\* lines 27-29: the effect that follows the render of a state change
RunEffect ==
  /\ chat.ref # chat.messages
  /\ chat' = [ chat EXCEPT !.ref = chat.messages ]
  /\ ChatUnchanged

\* lines 71-90: the response of a fetch is ok
ResponseArrives ==
  /\ \E i \in 1..Len(chat.requests) :
       LET r == chat.requests[i]
           assistantMessage == ChatMessage(ReplyIds[i], "assistant")
           finalMessages == Append(r.sent, assistantMessage)
       IN  /\ r.status = "pending"
           /\ chat' = [ chat EXCEPT !.messages = finalMessages,
                                    !.loading = FALSE,
                                    !.requests[i].status = "ok" ]
  /\ ChatUnchanged

\* lines 52-69 and 91-98: the response is not ok, or the fetch throws
ResponseFails ==
  /\ \E i \in 1..Len(chat.requests) :
       /\ chat.requests[i].status = "pending"
       /\ chat' = [ chat EXCEPT !.error = TRUE,
                                !.loading = FALSE,
                                !.requests[i].status = "failed" ]
  /\ ChatUnchanged

\* lines 102-114: reload(), up to the fetch of the append it makes
nonStreamReload(c) ==
  LET currentMessages == c.ref
      messagesWithoutLast == DropLast(currentMessages)
      resend == /\ messagesWithoutLast # << >>
                /\ messagesWithoutLast[Len(messagesWithoutLast)].role = "user"
      entry == [ history |-> c.messages, resent |-> resend,
                 request |-> IF resend THEN Len(c.requests) + 1 ELSE 0 ]
      c1 == [ c EXCEPT !.reloads = Append(@, entry) ]
  IN  IF currentMessages = << >> \/ ~resend
        THEN c1
        ELSE nonStreamAppend(
               [ c1 EXCEPT !.messages = DropLast(messagesWithoutLast) ],
               messagesWithoutLast[Len(messagesWithoutLast)], "reload")

CallReload ==
  /\ ChatCalls(chat) < MaxChatCalls
  /\ chat' = nonStreamReload(chat)
  /\ ChatUnchanged

\* lines 116-118: stop()
CallStop ==
  /\ chat.loading
  /\ chat' = [ chat EXCEPT !.loading = FALSE ]
  /\ ChatUnchanged

ChatNext ==
  \/ CallAppend
  \/ RunEffect
  \/ ResponseArrives
  \/ ResponseFails
  \/ CallReload
  \/ CallStop

ChatSpec == ChatInit /\ [][ChatNext]_vars

\* ------------------------------------------------------------------------
\* UsageGuard (usage-guard.server.ts) on BillingService.checkUsageLimit and
\* canPerformAction (stripe.server.ts), for projects and screens. The
\* database answers with the user's tier and counts.
\* ------------------------------------------------------------------------
Tiers == { "free", "pro", "enterprise", "enterprise_plus" }

\* getPricing()[tier].limits
getPricing(tier) ==
  CASE tier = "free" -> [ projects |-> 5, screens |-> 10 ]
    [] tier = "pro" -> [ projects |-> 20, screens |-> 100 ]
    [] tier = "enterprise" -> [ projects |-> 100, screens |-> 1000 ]
    [] tier = "enterprise_plus" -> [ projects |-> 200, screens |-> 2000 ]

\* pricing[tier]?.limits || pricing.free.limits
getTierLimits(tier) ==
  IF tier \in Tiers THEN getPricing(tier) ELSE getPricing("free")

\* user.subscription_tier || 'free'
TierOf(user) ==
  IF user.subscription_tier = "" THEN "free" ELSE user.subscription_tier

\* lines 280-285 and 290-295: the answer for a count and a limit
LimitCheck_atMost(current, max) ==
  [ exceeded |-> max # -1 /\ current > max,
    current |-> current, max |-> max, unlimited |-> max = -1 ]

LimitCheck(current, max) ==
  [ exceeded |-> max # -1 /\ current >= max,
    current |-> current, max |-> max, unlimited |-> max = -1 ]

\* the cases 'projects' and 'screens' of checkUsageLimit
checkUsageLimit(user, limitType) ==
  LET limits == getTierLimits(TierOf(user))
  IN  CASE limitType = "projects" -> LimitCheck(user.projects, limits.projects)
        [] limitType = "screens" -> LimitCheck(user.screens, limits.screens)

LimitTypeOf(action) ==
  IF action = "create_project" THEN "projects"
  ELSE IF action = "create_screen" THEN "screens"
  ELSE "storage"

\* { allowed: !limitCheck.exceeded, ...limitCheck }
canPerformAction(user, action) ==
  LET limitCheck == checkUsageLimit(user, LimitTypeOf(action))
  IN  [ allowed |-> ~limitCheck.exceeded, exceeded |-> limitCheck.exceeded,
        current |-> limitCheck.current, max |-> limitCheck.max,
        unlimited |-> limitCheck.unlimited ]

\* canCreateProject and canCreateScreen: the check they return; the text of
\* the error is one of two kinds
CanCreate(user, action) ==
  LET check == canPerformAction(user, action)
  IN  IF ~check.allowed
        THEN [ allowed |-> FALSE,
               error |-> IF check.unlimited THEN "unlimited available"
                         ELSE "limit reached",
               current |-> check.current, max |-> check.max,
               unlimited |-> check.unlimited ]
        ELSE [ allowed |-> TRUE, error |-> "",
               current |-> check.current, max |-> check.max,
               unlimited |-> check.unlimited ]

\* enforceProjectLimit and enforceScreenLimit
Enforce(user, action) ==
  LET check == CanCreate(user, action)
  IN  IF ~check.allowed
        THEN [ thrown |-> TRUE, status |-> 403, upgradeRequired |-> TRUE,
               limitType |-> LimitTypeOf(action), check |-> check ]
        ELSE [ thrown |-> FALSE, status |-> 0, upgradeRequired |-> FALSE,
               limitType |-> "", check |-> check ]

\* a check that is handed back, not thrown
Returned(check) ==
  [ thrown |-> FALSE, status |-> 0, upgradeRequired |-> FALSE,
    limitType |-> "", check |-> check ]

\* no call was made yet
NoOutcome ==
  Returned([ allowed |-> TRUE, error |-> "", current |-> 0, max |-> 0,
             unlimited |-> FALSE ])

\* the row of the user in the database: a tier (possibly none, or one
\* without pricing) and counts around the limits of the tier
GuardInit ==
  /\ env = DefaultEnv
  /\ body = [ messages |-> << >>, chatMode |-> "discuss",
              useKimiPlanning |-> "undefined", requestedModel |-> Unset,
              requestedProvider |-> Unset, optimize |-> FALSE ]
  /\ authEnv = "allowed"
  /\ builderErrs = {}
  /\ fallbackChain = NullChain
  /\ pc = "guard"
  /\ userSupabaseId = ""
  /\ currentModel = ""
  /\ currentProvider = ""
  /\ enhancedMessages = << >>
  /\ processedMessages = << >>
  /\ cumulativeUsage = ZeroUsage
  /\ attempt = 0
  /\ maxRetries = 0
  /\ result = NoResult
  /\ lastError = NoError
  /\ response = NoResponse
  /\ calls = << >>
  /\ callMsgs = << >>
  /\ increments = << >>
  /\ designPlan = ""
  /\ query = NoQuery
  /\ heap = << >>
  /\ reqs = << >>
  /\ gen = NoGen
  /\ sync = NoSync
  /\ store = NoStore
  /\ chat = NoChat
  /\ \E t \in Tiers \cup { "", "legacy" } :
       LET limits == getTierLimits(IF t = "" THEN "free" ELSE t)
       IN  \E p \in { 0, limits.projects - 1, limits.projects,
                      limits.projects + 1 },
              n \in { 0, limits.screens - 1, limits.screens,
                      limits.screens + 1 } :
             guard = [ user |-> [ subscription_tier |-> t, projects |-> p,
                                  screens |-> n ],
                       fn |-> "none", action |-> "",
                       outcome |-> NoOutcome ]

GuardUnchanged ==
  UNCHANGED << env, fallbackChain, pc, body, userSupabaseId, currentModel,
               currentProvider, enhancedMessages, processedMessages,
               cumulativeUsage, attempt, maxRetries, result, lastError,
               response, calls, callMsgs, increments, authEnv, designPlan,
               query, builderErrs, heap, reqs, gen, sync, store, chat >>

CallCanCreateProject ==
  /\ guard' = [ guard EXCEPT !.fn = "canCreateProject",
                             !.action = "create_project",
                             !.outcome = Returned(CanCreate(guard.user,
                                                            "create_project")) ]
  /\ GuardUnchanged

CallCanCreateScreen ==
  /\ guard' = [ guard EXCEPT !.fn = "canCreateScreen",
                             !.action = "create_screen",
                             !.outcome = Returned(CanCreate(guard.user,
                                                            "create_screen")) ]
  /\ GuardUnchanged

CallEnforceProjectLimit ==
  /\ guard' = [ guard EXCEPT !.fn = "enforceProjectLimit",
                             !.action = "create_project",
                             !.outcome = Enforce(guard.user, "create_project") ]
  /\ GuardUnchanged

CallEnforceScreenLimit ==
  /\ guard' = [ guard EXCEPT !.fn = "enforceScreenLimit",
                             !.action = "create_screen",
                             !.outcome = Enforce(guard.user, "create_screen") ]
  /\ GuardUnchanged

GuardNext ==
  \/ CallCanCreateProject
  \/ CallCanCreateScreen
  \/ CallEnforceProjectLimit
  \/ CallEnforceScreenLimit

GuardSpec == GuardInit /\ [][GuardNext]_vars

\* ------------------------------------------------------------------------
\* Vocabulary of the properties
\* ------------------------------------------------------------------------
PairOf(c) == << c.model, c.provider >>

PairsOf(log) == [ i \in 1..Len(log) |-> PairOf(log[i]) ]

IsPrefix(s, t) == Len(s) <= Len(t) /\ SubSeq(t, 1, Len(s)) = s

Repeat(x, n) == [ i \in 1..n |-> x ]

RECURSIVE WalkFrom(_, _)
\* every entry from i on, each maxRetries + 1 times, in chain order
WalkFrom(chain, i) ==
  IF i > Len(chain)
    THEN << >>
    ELSE Repeat(PairOf(chain[i]), chain[i].maxRetries + 1)
           \o WalkFrom(chain, i + 1)

FailedRetryably(c) ==
  c.outcome = "error" /\ IsRetryableMessage(c.error.message)

FailedFatally(c) ==
  c.outcome = "error" /\ ~IsRetryableMessage(c.error.message)

CallsTo(pair) == SelectSeq(BuilderCalls, LAMBDA c : PairOf(c) = pair)

StartsAtEntry0 ==
  /\ BuilderCalls # << >>
  /\ PairOf(BuilderCalls[1]) = PairOf(fallbackChain[1])

Succeeded == ~response.nil /\ response.status = 200

RECURSIVE SumUsage(_)
SumUsage(log) ==
  IF log = << >>
    THEN ZeroUsage
    ELSE AddUsage(SumUsage(Tail(log)), Head(log).usage)

ContentHas(msgs, tok) ==
  \E i \in 1..Len(msgs) : \E j \in 1..Len(msgs[i].content) :
    msgs[i].content[j] = tok

PlanningSettled ==
  \E i \in 1..Len(calls) :
    calls[i].kind = "planning" /\ calls[i].outcome # "pending"

PlanningFailed == PlanningSettled /\ designPlan = ""

PlanningSucceeded == PlanningSettled /\ designPlan # ""


\* ------------------------------------------------------------------------
\* Properties
\* ------------------------------------------------------------------------

\* C1: when the first builder call goes to chain entry 0 and every builder
\* call fails with a retryable error, the builder calls are, in chain order,
\* maxRetries + 1 calls to each entry (at every moment a prefix of that
\* walk), and the request ends with the error response of the last call.
C1_AllRetryableWalk ==
  ( /\ StartsAtEntry0
    /\ \A i \in 1..Len(BuilderCalls) :
         BuilderCalls[i].outcome = "pending" \/ FailedRetryably(BuilderCalls[i]) )
  => /\ IsPrefix(PairsOf(BuilderCalls), WalkFrom(fallbackChain, 1))
     /\ pc = "done" =>
          /\ PairsOf(BuilderCalls) = WalkFrom(fallbackChain, 1)
          /\ response =
               ErrorResponse(BuilderCalls[Len(BuilderCalls)].error)

\* C2: for consecutive chain entries i and i+1, when every call to entry i
\* failed with a retryable error and entry i+1 answers its first call, then
\* once the result is there entry i was called maxRetries_i + 1 times,
\* entry i+1 was called once, and the current pair is entry i+1.
C2_FallbackAfterRetries ==
  \A i \in 1..(Len(fallbackChain) - 1) :
    LET p == PairOf(fallbackChain[i])
        q == PairOf(fallbackChain[i + 1])
    IN  ( /\ ~result.nil
          /\ p # q
          /\ CallsTo(p) # << >>
          /\ \A k \in 1..Len(CallsTo(p)) : FailedRetryably(CallsTo(p)[k])
          /\ CallsTo(q) # << >> => CallsTo(q)[1].outcome = "ok" )
        => /\ Len(CallsTo(p)) = fallbackChain[i].maxRetries + 1
           /\ Len(CallsTo(q)) = 1
           /\ << currentModel, currentProvider >> = q

\* C3: no builder call is issued after a builder call that succeeded.
C3_NoCallAfterSuccess ==
  \A i \in 1..Len(BuilderCalls) :
    BuilderCalls[i].outcome = "ok" => i = Len(BuilderCalls)

\* C3 witness: the first call of a request succeeded, the request is over
\* and the chain had a further entry that was never called.
C3_Witness ==
  /\ pc = "done"
  /\ Len(BuilderCalls) = 1
  /\ BuilderCalls[1].outcome = "ok"
  /\ getNextFallback(fallbackChain, currentModel) # NoFallback

\* C4 as stated: a builder error that fails the retryable classification is
\* the last builder call of the request.
C4_FatalEndsRequest ==
  \A i \in 1..Len(BuilderCalls) :
    FailedFatally(BuilderCalls[i]) => i = Len(BuilderCalls)

\* C4 amended: a builder error that fails the retryable classification ends
\* the attempts on the current pair only: no sleep and no retry follows it,
\* the next thing the driver does is call the pair getNextFallback returns,
\* and the request ends with that error only when there is no such pair.
C4_FatalAbandonsPair ==
  \A k \in 1..Len(calls) :
    (calls[k].kind = "builder" /\ FailedFatally(calls[k])) =>
      LET nextFallback == getNextFallback(fallbackChain, calls[k].model)
      IN  /\ k < Len(calls) =>
               /\ calls[k + 1].kind = "builder"
               /\ nextFallback # NoFallback
               /\ calls[k + 1].model = nextFallback.model
               /\ calls[k + 1].provider = nextFallback.provider
          /\ (k = Len(calls) /\ pc = "done") =>
               /\ nextFallback = NoFallback
               /\ response = ErrorResponse(calls[k].error)

\* C4 witness: a call failed with a non-retryable error and the next entry
\* of the chain was called after it.
C4_Witness ==
  \E k \in 1..(Len(calls) - 1) :
    /\ calls[k].kind = "builder"
    /\ FailedFatally(calls[k])
    /\ calls[k + 1].kind = "builder"
    /\ calls[k + 1].model # calls[k].model

ChainPos == FindIndex(fallbackChain, currentModel)

\* C5: the chain position of the current model never moves backward, and a
\* request issues no more builder calls than the chain has attempts
\* (the sum of maxRetries + 1 over its entries).
C5_WalkTerminates ==
  [][ /\ (pc # "parse" => ChainPos' >= ChainPos)
      /\ Len(SelectSeq(calls', LAMBDA c : c.kind = "builder"))
           <= Len(WalkFrom(fallbackChain', 1)) ]_vars


\* C6: the usage of a successful response is the field-wise sum of the usage
\* of every sub-call that returned a usage object (planning, summarization,
\* context selection, the successful builder call).
C6_UsageIsSumOfSubCalls ==
  Succeeded => response.usage = SumUsage(calls)

\* C7: after a failed planning stage (a throw or an empty plan) the message
\* list is the original one, every builder call receives it, and the request
\* does not end before a builder call unless summarization or context
\* selection threw.
C7_PlanningFailureDegrades ==
  PlanningFailed =>
    /\ enhancedMessages = body.messages
    /\ NumBuilderCalls > 0 => callMsgs = body.messages
    /\ pc = "done" =>
         \/ NumBuilderCalls > 0
         \/ \E i \in 1..Len(calls) :
              /\ calls[i].kind \in { "summary", "selectContext" }
              /\ calls[i].outcome = "error"

\* C7 witness: the planning call threw and a builder call was issued.
C7_Witness ==
  /\ \E i \in 1..Len(calls) :
       calls[i].kind = "planning" /\ calls[i].outcome = "error"
  /\ NumBuilderCalls > 0

LastUserIndex(messages) ==
  CHOOSE i \in 1..Len(messages) :
    /\ messages[i].role = "user"
    /\ \A j \in (i + 1)..Len(messages) : messages[j].role # "user"

\* C8: on planning success the list handed to the builder is the original
\* list with the content of the last user message replaced by the tagged
\* plan: same length, every other message unchanged.
C8_OnlyLastUserReplaced ==
  (PlanningSucceeded /\ NumBuilderCalls > 0) =>
    LET ms == body.messages
        k  == LastUserIndex(ms)
    IN  /\ Len(callMsgs) = Len(ms)
        /\ \A i \in 1..Len(ms) :
             IF i = k
               THEN /\ callMsgs[i].role = "user"
                    /\ Len(callMsgs[i].content) = 3
                    /\ callMsgs[i].content[1].k = "Model"
                    /\ callMsgs[i].content[2].k = "Provider"
                    /\ callMsgs[i].content[3] = PlanTok(designPlan)
               ELSE callMsgs[i] = ms[i]

RequestTokens ==
  LET c == CleanContent(LastUserMessage(body.messages))
  IN  { c[i] : i \in 1..Len(c) }

C10_NoRetryAtBound ==
  ( /\ query.fn = "shouldRetry"
    /\ FindIndex(fallbackChain, query.model) # 0
    /\ query.count >=
         fallbackChain[FindIndex(fallbackChain, query.model)].maxRetries )
  => query.ret = FALSE

\* C10 witness: shouldRetry was asked about a retryable error for a model of
\* the chain with currentRetry at the entry's maxRetries.
C10_Witness ==
  /\ query.fn = "shouldRetry"
  /\ FindIndex(fallbackChain, query.model) # 0
  /\ IsRetryableMessage(query.error.message)
  /\ query.count =
       fallbackChain[FindIndex(fallbackChain, query.model)].maxRetries
  /\ query.ret = FALSE

\* the transient-failure markers in the spellings the checked messages use
MarkerSpellings ==
  { "overloaded", "Overloaded", "rate limit", "Rate Limit", "timeout",
    "TIMEOUT", "network", "Network", "429", "503", "500" }

MentionsMarker(message) ==
  \E i \in 1..Len(message) : message[i] \in MarkerSpellings

\* the entry chain.find returns for a model: the first one with that model
IsEntryFor(chain, i, m) ==
  /\ chain[i].model = m
  /\ \A j \in 1..(i - 1) : chain[j].model # m

\* C11: shouldRetry returns true exactly when the model has a chain entry,
\* the error message contains one of the markers overloaded, rate limit,
\* timeout, network, 429, 503, 500 in any letter case, and currentRetry is
\* below that entry's maxRetries; without a message or without an entry the
\* answer is false.
C11_ShouldRetryExactly ==
  query.fn = "shouldRetry" =>
    /\ query.ret <=>
         \E i \in 1..Len(fallbackChain) :
           /\ IsEntryFor(fallbackChain, i, query.model)
           /\ MentionsMarker(query.error.message)
           /\ query.count < fallbackChain[i].maxRetries
    /\ query.error.message = NoMessage => ~query.ret
    /\ (\A i \in 1..Len(fallbackChain) :
          fallbackChain[i].model # query.model) => ~query.ret

\* C11 witness: shouldRetry answered true for a message that spells its
\* marker in upper case.
C11_Witness ==
  /\ query.fn = "shouldRetry"
  /\ query.ret
  /\ query.error.message = << "request", "TIMEOUT" >>
  /\ query.count = 1

DistinctModels(chain) ==
  \A i, j \in 1..Len(chain) : chain[i].model = chain[j].model => i = j

\* C12: getNextFallback(currentModel) returns the entry right after the
\* entry found for currentModel, and null when that entry is the last one or
\* no entry has the model; on a chain of distinct models, applying it again
\* and again from entry 0 returns the entries in chain order, each once, and
\* then null.
C12_NextFallbackWalk ==
  /\ query.fn = "getNextFallback" =>
       /\ \A i \in 1..Len(fallbackChain) :
            IsEntryFor(fallbackChain, i, query.model) =>
              query.entry = IF i = Len(fallbackChain)
                              THEN NoFallback
                              ELSE fallbackChain[i + 1]
       /\ (\A i \in 1..Len(fallbackChain) :
             fallbackChain[i].model # query.model) => query.entry = NoFallback
  /\ (DistinctModels(fallbackChain) /\ query.walk # << >>) =>
       IsPrefix(query.walk, fallbackChain \o << NoFallback >>)

\* C12 witness: on a chain of distinct models the walk from entry 0 has
\* returned every entry and then null.
C12_Witness ==
  /\ DistinctModels(fallbackChain)
  /\ query.fn = "getNextFallback"
  /\ query.walk = fallbackChain \o << NoFallback >>

\* C13: the chain is built from the environment by the first call on the
\* registry and never changes afterwards, whatever happens to the
\* environment; it has four entries with maxRetries 2, 2, 1, 1, and
\* getDefaultModel returns its entry 0.
C13_ChainBuiltOnce ==
  [][ /\ fallbackChain # NullChain => fallbackChain' = fallbackChain
      /\ (fallbackChain = NullChain /\ fallbackChain' # NullChain) =>
           fallbackChain' = BuildChain(env)
      /\ fallbackChain' # NullChain =>
           /\ Len(fallbackChain') = 4
           /\ [ i \in 1..4 |-> fallbackChain'[i].maxRetries ] = << 2, 2, 1, 1 >>
      /\ query'.fn \notin { "none", "setEnv" } => fallbackChain' # NullChain
      /\ query'.fn = "getDefaultModel" => query'.entry = fallbackChain'[1]
    ]_vars

\* C13 witness: getDefaultModel was called after the environment changed and
\* returned entry 0 of the chain built earlier, which is not the entry the
\* environment of the call would give.
C13_Witness ==
  /\ query.fn = "getDefaultModel"
  /\ fallbackChain # BuildChain(env)
  /\ query.entry = fallbackChain[1]
  /\ query.entry # BuildChain(env)[1]

Pending(log) == { i \in 1..Len(log) : log[i].outcome = "pending" }

\* C14: at most one call of a request is outstanding, it is the latest one
\* issued, an outstanding builder call goes to the current (model, provider)
\* pair, and every builder call but the first was issued after the builder
\* call before it had failed.
C14_OneCallAtATime ==
  /\ Pending(calls) \subseteq { Len(calls) }
  /\ \A i \in Pending(calls) :
       calls[i].kind = "builder" =>
         PairOf(calls[i]) = << currentModel, currentProvider >>
  /\ \A k \in 2..Len(BuilderCalls) : BuilderCalls[k - 1].outcome = "error"

\* C14 witness: a call to a fallback pair is outstanding after the calls to
\* the pair before it have failed.
C14_Witness ==
  /\ Len(BuilderCalls) > 1
  /\ BuilderCalls[Len(BuilderCalls)].outcome = "pending"
  /\ PairOf(BuilderCalls[Len(BuilderCalls)]) # PairOf(BuilderCalls[1])

IncrementCalls == SelectSeq(calls, LAMBDA c : c.kind = "incrementUsage")

\* C15: incrementUsage is called, and writes, only after a builder call has
\* returned a result: while no builder call has succeeded, and in a request
\* that ended with an error response, nothing was written.
C15_NoWriteBeforeSuccess ==
  /\ (IncrementCalls # << >> \/ increments # << >>) =>
       \E i \in 1..Len(BuilderCalls) : BuilderCalls[i].outcome = "ok"
  /\ (~response.nil /\ response.error) =>
       (IncrementCalls = << >> /\ increments = << >>)

\* C15 witness: a request of a user with a Supabase id ended with an error
\* response after failed builder attempts.
C15_Witness ==
  /\ pc = "done"
  /\ response.error
  /\ userSupabaseId # ""
  /\ Len(BuilderCalls) > 1
  /\ increments = << >>

\* C16: a request answered with the 200 response has called incrementUsage
\* exactly once, and what that call wrote is the request's cumulative total
\* under the type ai_generation.
C16_SuccessIsTracked ==
  Succeeded =>
    /\ Len(IncrementCalls) = 1
    /\ \A i \in 1..Len(increments) :
         /\ increments[i].type = "ai_generation"
         /\ increments[i].tokens = response.usage[3]
    /\ Len(increments) <= 1

\* the error thrown to the outer catch: that of the latest call that failed
RaisedError ==
  LET failed == { i \in 1..Len(calls) :
                    /\ calls[i].kind \in { "summary", "selectContext", "builder" }
                    /\ calls[i].outcome = "error" }
  IN  calls[CHOOSE i \in failed : \A j \in failed : j <= i].error

GenerationFailed ==
  /\ pc = "done"
  /\ calls # << >>
  /\ calls[Len(calls)].kind \in { "summary", "selectContext", "builder" }
  /\ calls[Len(calls)].outcome = "error"

\* C17: a request whose summarization, context selection or last builder
\* call failed ends with an error response; its HTTP status equals the
\* statusCode of the body, which is 401 when the message of the error
\* mentions 'API key', else the error's own statusCode, else 500; its
\* isRetryable is false for the 'API key' error and when the error sets
\* isRetryable to false, true otherwise.
C17_ErrorResponseShape ==
  GenerationFailed =>
    LET e == RaisedError
        apiKey == \E i \in 1..Len(e.message) : e.message[i] = "API key"
    IN  /\ response.error
        /\ response.status = response.statusCode
        /\ response.statusCode =
             IF apiKey THEN 401
             ELSE IF e.statusCode # 0 THEN e.statusCode ELSE 500
        /\ response.isRetryable = (~apiKey /\ e.isRetryable # "false")

\* C17 witness: the chain was exhausted by a builder error about the API key
\* that carried status 403, and the response has status 401.
C17_Witness ==
  /\ GenerationFailed
  /\ calls[Len(calls)].kind = "builder"
  /\ RaisedError = ErrApiKey
  /\ response.status = 401

PlanningCalls == { i \in 1..Len(calls) : calls[i].kind = "planning" }

\* C19: a planning call is issued only in chat mode 'build' with
\* useKimiPlanning other than false; a request issues at most one, to the
\* fixed planning model and provider, and before every builder call.
C19_PlanningGate ==
  /\ PlanningCalls # {} =>
       /\ body.chatMode = "build"
       /\ body.useKimiPlanning # "false"
  /\ Cardinality(PlanningCalls) <= 1
  /\ \A i \in PlanningCalls :
       /\ calls[i].model = "moonshotai/kimi-k2-thinking"
       /\ calls[i].provider = "OpenRouter"
       /\ \A j \in 1..Len(calls) : calls[j].kind = "builder" => i < j

\* C19 witness: a request in build mode that left useKimiPlanning out made
\* its planning call and then a builder call.
C19_Witness ==
  /\ body.chatMode = "build"
  /\ body.useKimiPlanning = "undefined"
  /\ PlanningCalls # {}
  /\ NumBuilderCalls > 0

\* C20: when the usage check answers that the limit is reached, the request
\* ends with status 429, limitReached and upgradeRequired, and has issued
\* no planning, summarization, context-selection or builder call and no
\* usage increment.
C20_LimitReachedStops ==
  (authEnv = "denied" /\ pc # "auth") =>
    /\ pc = "done"
    /\ response.status = 429
    /\ response.limitReached
    /\ response.upgradeRequired
    /\ calls = << >>
    /\ increments = << >>

\* C20 witness: the usage check denied a build request that would otherwise
\* have gone to planning.
C20_Witness ==
  /\ authEnv = "denied"
  /\ pc = "done"
  /\ PlanningGate(body)

\* C18: every request has an accumulator of its own, which starts at zero;
\* whatever the interleaving of the requests, the accumulator of a request
\* holds the sum of the usage of that request's own sub-calls, and that sum
\* is what the request persists and reports.
C18_AccumulatorPerRequest ==
  \A r \in Requests :
    /\ reqs[r].acc # 0 =>
         /\ heap[reqs[r].acc] = SumUsage(reqs[r].own)
         /\ \A q \in Requests \ { r } : reqs[q].acc # reqs[r].acc
    /\ reqs[r].pc \in { "track", "done" } =>
         reqs[r].persisted = SumUsage(reqs[r].own)[3]
    /\ reqs[r].pc = "done" => reqs[r].reported = SumUsage(reqs[r].own)

\* C18 witness: two requests are in flight at the same time, one waiting for
\* its builder call and one for its context selection, and the accumulator
\* of each holds what its own sub-calls reported.
C18_Witness ==
  \E r, q \in Requests :
    /\ reqs[r].pc = "call"
    /\ reqs[q].pc = "select"
    /\ heap[reqs[r].acc] = << 4, 6, 10 >>
    /\ heap[reqs[q].acc] = << 3, 4, 7 >>

Sleeps == { k \in 1..Len(calls) : calls[k].kind = "sleep" }

\* C21: a backoff sleep comes right after a builder call that failed with a
\* retryable error and right before the next call to the same pair; two
\* builder calls with no sleep between them are the last attempt on a pair
\* and the first attempt on the pair getNextFallback gives, and a request
\* that ended did not end on a sleep.
C21_SleepOnlyBetweenRetries ==
  /\ \A k \in Sleeps :
       /\ k > 1
       /\ calls[k - 1].kind = "builder"
       /\ FailedRetryably(calls[k - 1])
       /\ k < Len(calls) =>
            /\ calls[k + 1].kind = "builder"
            /\ PairOf(calls[k + 1]) = PairOf(calls[k - 1])
       /\ k = Len(calls) => pc = "sleep"
  /\ \A k \in 1..(Len(calls) - 1) :
       (calls[k].kind = "builder" /\ calls[k + 1].kind = "builder") =>
         LET nextFallback == getNextFallback(fallbackChain, calls[k].model)
         IN  /\ calls[k].outcome = "error"
             /\ nextFallback # NoFallback
             /\ PairOf(calls[k + 1]) = PairOf(nextFallback)

\* C21 witness: a request ended EXHAUSTED after a walk with sleeps before
\* the retries and none before the switches.
C21_Witness ==
  /\ pc = "done"
  /\ response.error
  /\ Cardinality(Sleeps) = 6
  /\ Len(BuilderCalls) = 10

KindRank(kind) ==
  CASE kind = "planning"      -> 1
    [] kind = "summary"       -> 2
    [] kind = "selectContext" -> 3
    [] kind = "builder"       -> 4
    [] kind = "sleep"         -> 4
    [] kind = "incrementUsage" -> 5

\* C22: the sub-calls of a request are issued in the order planning,
\* summarization, context selection, builder attempts, each only after the
\* one before it has returned; summarization and context selection are
\* each called at most once.
C22_SubCallOrder ==
  /\ \A i, j \in 1..Len(calls) :
       i < j => /\ KindRank(calls[i].kind) <= KindRank(calls[j].kind)
                /\ calls[i].outcome # "pending"
  /\ \A kind \in { "planning", "summary", "selectContext" } :
       Cardinality({ i \in 1..Len(calls) : calls[i].kind = kind }) <= 1

\* C22 witness: planning, summarization and context selection were called
\* once each, and the builder was retried and a fallback pair taken.
C22_Witness ==
  /\ \A kind \in { "planning", "summary", "selectContext" } :
       \E i \in 1..Len(calls) : calls[i].kind = kind
  /\ Sleeps # {}
  /\ \E i \in 1..Len(BuilderCalls) :
       PairOf(BuilderCalls[i]) # PairOf(BuilderCalls[1])

\* the model the request starts with: requestedModel || defaultFallback.model
StartModel == EnvOr(body.requestedModel, fallbackChain[1].model)

ModelCalls ==
  { i \in 1..Len(calls) :
      calls[i].kind \in { "planning", "summary", "selectContext", "builder" } }

\* C24: a model call is issued only for a request whose usage check
\* answered allowed; when the user lookup or the usage check throws, the
\* request issues no model call.
C24_NoCallWithoutUsageCheck ==
  ModelCalls # {} => authEnv = "allowed"

ContextFailures ==
  { i \in 1..Len(calls) :
      /\ calls[i].kind \in { "summary", "selectContext" }
      /\ calls[i].outcome = "error" }

\* C25: when summarization or context selection fails, the request ends
\* with the error response for that failure and issues no builder call.
C25_ContextFailureEndsRequest ==
  \A i \in ContextFailures :
    /\ i = Len(calls)
    /\ pc = "done"
    /\ response = ErrorResponse(calls[i].error)
    /\ response.error
    /\ NumBuilderCalls = 0

\* C25 witness: context selection failed after the planning call had failed
\* and been passed over.
C25_Witness ==
  /\ \E i \in ContextFailures : calls[i].kind = "selectContext"
  /\ \E i \in 1..Len(calls) :
       calls[i].kind = "planning" /\ calls[i].outcome = "error"

\* C26: a call of generateText with a forced model and a forced provider
\* invokes that model on that provider, whatever tags the messages carry.
C26_ForcedPairIsInvoked ==
  (gen.outcome # "none" /\ gen.forceModel # "" /\ gen.forceProvider # "") =>
    /\ gen.outcome = "invoked"
    /\ gen.model = gen.forceModel
    /\ gen.provider = gen.forceProvider

\* the options objects handed to queueSync
Queued == { v \in 1..Len(sync.issued) : sync.issued[v].via = "queueSync" }

\* C27: one queueSync call leads to at most MAX_RETRIES + 1 executions of
\* syncProject with its options, the retry count of a project never exceeds
\* MAX_RETRIES, a sync that is given up leaves no retry count and no timer,
\* and a successful sync leaves no retry count.
C27_RetriesAreBounded ==
  [][ /\ \A v \in 1..Len(sync'.issued) :
           sync'.issued[v].via = "queueSync"
             => sync'.attempts[v] <= MAX_RETRIES + 1
      /\ \A p \in Projects : sync'.retryCount[p] <= MAX_RETRIES
      /\ \A v \in sync'.givenUp \ sync.givenUp :
           /\ sync'.retryCount[ProjectOf(sync, v)] = 0
           /\ v \notin sync'.timers
      /\ \A p \in Projects :
           sync'.written[p] # sync.written[p] => sync'.retryCount[p] = 0
    ]_vars

\* nothing is running, queued or waiting for a timer
SyncIdle ==
  /\ sync.syncQueue = << >>
  /\ sync.running = {}
  /\ sync.timers = {}

\* the options v, or later options for the same project, were written to the
\* backend or given up after the retries
Settled(v) ==
  \E w \in v..Len(sync.issued) :
    /\ sync.issued[w].projectId = sync.issued[v].projectId
    /\ \/ \E i \in 1..Len(sync.written[sync.issued[w].projectId]) :
            sync.written[sync.issued[w].projectId][i] = w
       \/ w \in sync.givenUp

\* C28: no queued sync is lost: when the queue is empty and nothing is
\* running or waiting for a retry, every options object passed to queueSync
\* was synced or superseded by later options of the same project that were
\* synced (options given up after the retries count as handled).
C28_NoQueuedSyncLost ==
  SyncIdle => \A v \in Queued : Settled(v)

\* C29: at most one execution of syncProject is in flight at any time.
C29_OneSyncInFlight ==
  Cardinality(sync.running) <= 1

\* C30: the options written to the backend for a project are written in the
\* order they were made: older options are never written after newer ones.
C30_NoOlderWriteAfterNewer ==
  \A p \in Projects :
    \A i, j \in 1..Len(sync.written[p]) :
      i < j => sync.written[p][i] < sync.written[p][j]

\* the chat history stored for a project, as message ids with their content
StoredHistory(t, projectId) ==
  LET rows == SelectSeq(t.history, LAMBDA row : row.projectId = projectId)
  IN  [ i \in 1..Len(rows) |-> Message(rows[i].id, rows[i].content) ]

\* the number of project rows with an id
ProjectRows(t, projectId) ==
  Cardinality({ i \in 1..Len(t.projects) : t.projects[i].id = projectId })

\* the tables hold a project as a successful sync of the options leaves it
SyncedAs(t, options) ==
  /\ StoredHistory(t, options.projectId) = Saved(options.messages)
  /\ ProjectRows(t, options.projectId) = 1

\* the tables apart from the updated_at column
Content(t) ==
  [ projects |-> [ i \in 1..Len(t.projects) |->
                     [ id |-> t.projects[i].id, name |-> t.projects[i].name ] ],
    history |-> t.history,
    files |-> t.files ]

\* C31: when an execution of syncProject ends successfully, the stored chat
\* history of the project is the non-blank messages of its options, each
\* once and in order, and the project has exactly one row; an execution
\* entered right after a successful sync of the same options leaves the
\* tables as they were (apart from updated_at); and options with neither
\* messages nor files lead to no call on supabasePersistence.
C31_SyncStoresTheOptions ==
  [][ \A i \in 1..Len(store.execs) :
        LET x == store.execs[i]
            y == store'.execs[i]
        IN  /\ (x.at # "done" /\ y.at = "done") =>
                 /\ SyncedAs(store', y.options)
                 /\ y.resync => Content(store') = Content(y.before)
            /\ (~HasMessages(y.options) /\ ~HasFiles(y.options)) =>
                 y.calls = 0 /\ y.at = "skipped"
    ]_vars

\* the history ends with a user message followed by one more message
EndsWithUserThenReply(history) ==
  /\ Len(history) >= 2
  /\ history[Len(history) - 1].role = "user"

\* C32: a reload on a history [..., user u, assistant a] sends the history up
\* to and including u, with u once and a absent; a reload on a history whose
\* message before the last one is not a user message sends nothing and
\* leaves the messages as they are.
C32_ReloadResendsLastUser ==
  \A k \in 1..Len(chat.reloads) :
    LET r == chat.reloads[k]
    IN  IF EndsWithUserThenReply(r.history)
          THEN /\ r.resent
               /\ chat.requests[r.request].sent = DropLast(r.history)
          ELSE ~r.resent

\* C33: when no fetch is pending, the messages hold the user message and the
\* reply of every append that was answered: a response that arrives later
\* does not remove what was added in the meantime.
C33_NoMessageLostByLateResponse ==
  (\A i \in 1..Len(chat.requests) : chat.requests[i].status # "pending") =>
    \A i \in 1..Len(chat.requests) :
      (chat.requests[i].status = "ok" /\ chat.requests[i].via = "append") =>
        /\ \E n \in 1..Len(chat.messages) :
             chat.messages[n] = chat.requests[i].message
        /\ \E n \in 1..Len(chat.messages) :
             chat.messages[n] = ChatMessage(ReplyIds[i], "assistant")

\* counts and limits, the unlimited one among them, for the answer of
\* checkUsageLimit taken by itself
SampleCounts == 0..3

SampleLimits == { -1, 0, 1, 2 }

\* the count of the user that a call of the guard is about
CountOf(user, action) ==
  IF action = "create_project" THEN user.projects ELSE user.screens

\* C34: for projects and screens the check is allowed exactly when the limit
\* is -1 or current < max, a denied check has unlimited = false, and
\* enforceProjectLimit and enforceScreenLimit throw a 403 response with
\* upgradeRequired exactly when the check is not allowed and return the
\* check otherwise.
C34_LimitCheckAndEnforce ==
  /\ \A current \in SampleCounts, max \in SampleLimits :
       LET limitCheck == LimitCheck(current, max)
       IN  /\ ~limitCheck.exceeded <=> (max = -1 \/ current < max)
           /\ limitCheck.exceeded => ~limitCheck.unlimited
           /\ limitCheck.unlimited <=> max = -1
  /\ guard.fn # "none" =>
       LET o == guard.outcome
           check == o.check
       IN  /\ check.current = CountOf(guard.user, guard.action)
           /\ check.allowed <=> (check.max = -1 \/ check.current < check.max)
           /\ ~check.allowed => ~check.unlimited
           /\ guard.fn \in { "enforceProjectLimit", "enforceScreenLimit" } =>
                /\ o.thrown <=> ~check.allowed
                /\ o.thrown => /\ o.status = 403
                               /\ o.upgradeRequired
                               /\ o.limitType = LimitTypeOf(guard.action)
           /\ guard.fn \in { "canCreateProject", "canCreateScreen" } =>
                ~o.thrown

\* enforceScreenLimit threw for a user whose screen count equals the limit
C34_Witness ==
  /\ guard.fn = "enforceScreenLimit"
  /\ guard.outcome.thrown
  /\ guard.outcome.status = 403
  /\ guard.outcome.check.current = guard.outcome.check.max
  /\ guard.user.subscription_tier = "legacy"

====
